---- MODULE Spec2Model ----
(***************************************************************************)
(* A model of ESIO: the handle and file lifecycle, the field metadata      *)
(* codec, the 3D field transfer engine (esio.c) and the layout-0 transfer  *)
(* kernel (layout0.c), driven SPMD by a fixed number of MPI ranks.         *)
(*                                                                         *)
(* One collective call is one action: every rank executes the same         *)
(* routine on its replica of the handle against the shared container, and  *)
(* the ranks meet at the container's collective points (dataset creation,  *)
(* collective transfer).  A rank that leaves a call early while others     *)
(* reach a collective point leaves those others blocked ("hang").          *)
(***************************************************************************)
EXTENDS Integers, Sequences, FiniteSets, TLC

\* ------------------------------------------------------------------ bounds
MaxExtent == 2      \* largest global extent in one direction
MaxElems  == 4      \* largest number of elements of a field
MaxSeed   == 1      \* caller buffers are drawn from seeds 0..MaxSeed
MaxPad    == 1      \* explicit strides leave up to MaxPad unused scalars
MaxHist   == 4      \* calls a lifecycle history records
MaxKeep   == 3      \* largest keep_howmany of a restart rotation
MaxIndex  == 2      \* largest restart index a directory starts with
MaxName   == 3      \* longest name restart_nextindex is given, save the long ones

\* ------------------------------------------------------- program constants
NRanks == 2                      \* mpiexec -np 2
ESIO_FIELD_METADATA_SIZE == 8
ESIO_SUCCESS == 0
ESIO_EFAULT  == 3
ESIO_EINVAL  == 4
ESIO_EFAILED == 5
ESIO_ESANITY == 7
ESIO_ENOMEM  == 8
INT_MAX == 2147483647
ESIO_MAJOR_VERSION == 0
ESIO_MINOR_VERSION == 0
ESIO_POINT_VERSION == 1

Ranks == 0 .. (NRanks - 1)
Paths == {"a.h5"}
Names == {"u"}
Types == {"double", "float", "double[2]"}

\* ------------------------------------------------------------ small helpers
RECURSIVE SortedSeq(_)
SortedSeq(S) ==
    IF S = {} THEN <<>>
    ELSE LET m == CHOOSE x \in S : \A y \in S : x <= y
         IN  <<m>> \o SortedSeq(S \ {m})

Prod3(t) == t[1] * t[2] * t[3]

\* ESIO_ERROR and ESIO_ERROR_VAL as an entry of a call's record: the code
\* is handed to the error hook, which returns or ends the process.
Raise(code) == << <<"ESIO_ERROR", code>> >>

\* ------------------------------------------------- container substrate (HDF5)
\* H5Tget_class / H5Tget_array_dims2 as used by esio_type_ncomponents
esio_type_ncomponents(type_id) ==
    IF type_id = "double[2]" THEN 2 ELSE 1

\* A conversion lookup with its answer inverted.
H5Tfind_inverted(src, dst) ==
    esio_type_ncomponents(src) # esio_type_ncomponents(dst)

\* H5Tfind: a conversion path exists between atomic numeric types and
\* between array types of the same shape, not between the two kinds, and
\* none to an opaque type (a scalar type a file may hold, H5T_OPAQUE).
H5Tfind(src, dst) ==
    /\ esio_type_ncomponents(src) = esio_type_ncomponents(dst)
    /\ dst # "opaque"

\* The driver's per-element conversion.  Values are small integers; the
\* values a float can hold are the even ones, so narrowing rounds down.
H5Tconvert(src, dst, v) ==
    IF dst = "float" /\ src # "float" THEN v - (v % 2) ELSE v

NoField == [dset |-> FALSE, dims |-> <<>>, type |-> "", data |-> <<>>,
            meta |-> <<>>]
NoFile  == [exists |-> FALSE, fields |-> [n \in Names |-> NoField]]
EmptyFile == [exists |-> TRUE, fields |-> [n \in Names |-> NoField]]

\* --------------------------------------------------------------- the handle
\* An open-container identifier stands for (path, access mode).
FileId(p, rw) == [path |-> p, rw |-> rw]
NoId == [path |-> "", rw |-> FALSE]          \* file_id == -1

\* ------------------------------------------------------ caller's arguments
\* A collective field call is described by the arguments all ranks share
\* (name, element type, global extents, the direction the field is
\* distributed in, the stride padding, the buffer seed) from which each
\* rank's own quadruples follow, as in the field_float driver.
ZeroStride == 0 - 1      \* pad value standing for "all strides zero"
Whole == 0               \* dir value: every rank addresses the whole field

\* Rank r's share [st, st+sz) of n elements split evenly over the ranks.
SlabStart(r, n) == (r * n) \div NRanks
SlabSize(r, n)  == ((r + 1) * n) \div NRanks - (r * n) \div NRanks

BadKinds == {"none", "s_null", "name_null", "field_null",
             "nc_neg", "cst_neg", "csz_zero",
             "nb_neg", "bst_neg", "bsz_zero",
             "na_neg", "ast_neg", "asz_zero"}

\* Global extents <<nc, nb, na>> as passed by every rank.
ArgGlobal(a) ==
    [d \in 1..3 |-> IF (a.bad = "nc_neg" /\ d = 1) \/ (a.bad = "nb_neg" /\ d = 2)
                       \/ (a.bad = "na_neg" /\ d = 3)
                    THEN 0 - 1 ELSE a.ext[d]]

\* Starts <<cst, bst, ast>> passed by rank r.
ArgStart(a, r) ==
    [d \in 1..3 |-> IF (a.bad = "cst_neg" /\ d = 1) \/ (a.bad = "bst_neg" /\ d = 2)
                       \/ (a.bad = "ast_neg" /\ d = 3)
                    THEN 0 - 1
                    ELSE IF d = a.dir THEN SlabStart(r, a.ext[d]) ELSE 0]

\* Local counts <<csz, bsz, asz>> passed by rank r.
ArgLocal(a, r) ==
    [d \in 1..3 |-> IF (a.bad = "csz_zero" /\ d = 1) \/ (a.bad = "bsz_zero" /\ d = 2)
                       \/ (a.bad = "asz_zero" /\ d = 3)
                    THEN 0
                    ELSE IF d = a.dir THEN SlabSize(r, a.ext[d]) ELSE a.ext[d]]

\* Strides <<cstride, bstride, astride>> passed by rank r: all zero, or
\* explicit strides leaving a.pad unused scalars after every run (the
\* tightly packed ones when a.pad is 0).
ArgStride(a, r) ==
    IF a.pad = ZeroStride THEN <<0, 0, 0>>
    ELSE LET sz == ArgLocal(a, r)
             as == esio_type_ncomponents(a.type) + a.pad
             bs == sz[3] * as + a.pad
             cs == sz[2] * bs + a.pad
         IN  <<cs, bs, as>>

\* A zero stride means contiguous (esio.h, esio_field_write_double).
ContiguousStride(str, sz, ncomponents) ==
    LET as == IF str[3] = 0 THEN ncomponents ELSE str[3]
        bs == IF str[2] = 0 THEN sz[3] * as ELSE str[2]
        cs == IF str[1] = 0 THEN sz[2] * bs ELSE str[1]
    IN  <<cs, bs, as>>

\* The caller's buffer on rank r: clocal*cstride scalars whose values are
\* fixed by the seed, the rank and the position (even for float buffers).
BufLen(a, r) ==
    LET sz  == ArgLocal(a, r)
        str == ContiguousStride(ArgStride(a, r), sz, esio_type_ncomponents(a.type))
    IN  IF sz[1] * str[1] > 0 THEN sz[1] * str[1] ELSE 0

BufVal(a, r, o) ==
    IF a.type = "float" THEN 2 * ((a.seed + r + o) % 2)
    ELSE (a.seed + 2 * r + o) % 4

WriteBuf(a, r) == [o \in 1 .. BufLen(a, r) |-> BufVal(a, r, o)]

Untouched == 0 - 1       \* content of a read buffer before the read
FreshBuf(a, r) == [o \in 1 .. BufLen(a, r) |-> Untouched]

\* --------------------------------------------------------- layout registry
\* esio_layout[]: tag 0 is the baseline layout (one contiguous 3D dataset);
\* tag 1 stands for an additional registered layout that groups the field
\* per C-plane in a 2D dataset of (nc*nb) x na elements.
esio_nlayout == 2
esio_layout_tag(index) == index

\* filespace_creator of layout `tag`: the dataspace dimensions on disk.
esio_layout_filespace_creator(tag, nc, nb, na) ==
    IF tag = 0 THEN <<nc, nb, na>> ELSE <<nc * nb, na>>

\* Memory selection of the kernel: the union over (k, j) of the runs
\* start = k*cstride + j*bstride, stride = astride, count = alocal.
\* A memory selection where every run replaces the selection (SET instead
\* of OR): only the last run stays selected.
layout0_memspace_lastrun(sz, str) ==
    { (sz[1] - 1) * str[1] + (sz[2] - 1) * str[2] + i * str[3] :
        i \in 0 .. (sz[3] - 1) }

\* A memory selection that takes the elements of a run one scalar apart
\* whatever astride is.
layout0_memspace_unitstride(sz, str) ==
    { k * str[1] + j * str[2] + i :
        <<k, j, i>> \in (0 .. sz[1] - 1) \X (0 .. sz[2] - 1) \X (0 .. sz[3] - 1) }

layout0_memspace(sz, str) ==
    { k * str[1] + j * str[2] + i * str[3] :
        <<k, j, i>> \in (0 .. sz[1] - 1) \X (0 .. sz[2] - 1) \X (0 .. sz[3] - 1) }

\* A file selection that ignores the block's start.
layout0_filespace_origin(dims, st, sz) ==
    [m \in 1 .. Prod3(sz) |->
        LET n == m - 1
            k == n \div (sz[2] * sz[3])
            j == (n \div sz[3]) % sz[2]
            i == n % sz[3]
        IN  (k * dims[2] + j) * dims[3] + i]

\* A file selection whose counts are the block's end positions.
layout0_filespace_endcount(dims, st, sz) ==
    [m \in 1 .. Prod3([d \in 1 .. 3 |-> st[d] + sz[d]]) |->
        LET n == m - 1
            k == n \div ((st[2] + sz[2]) * (st[3] + sz[3]))
            j == (n \div (st[3] + sz[3])) % (st[2] + sz[2])
            i == n % (st[3] + sz[3])
        IN  ((st[1] + k) * dims[2] + (st[2] + j)) * dims[3] + (st[3] + i)]

\* File selection of layout 0: the block at (cstart, bstart, astart) of
\* extent (clocal, blocal, alocal) of the dataset's own dataspace, as the
\* row-major sequence of linear element positions.
layout0_filespace(dims, st, sz) ==
    [m \in 1 .. Prod3(sz) |->
        LET n == m - 1
            k == n \div (sz[2] * sz[3])
            j == (n \div sz[3]) % sz[2]
            i == n % sz[3]
        IN  ((st[1] + k) * dims[2] + (st[2] + j)) * dims[3] + (st[3] + i)]

\* File selection of layout 1: plane k of the block is the 2D block at
\* ((cstart+k)*bglobal + bstart, astart) of extent (blocal, alocal).
layout1_filespace(dims, bglobal, st, sz) ==
    [m \in 1 .. Prod3(sz) |->
        LET n == m - 1
            k == n \div (sz[2] * sz[3])
            j == (n \div sz[3]) % sz[2]
            i == n % sz[3]
        IN  ((st[1] + k) * bglobal + st[2] + j) * dims[2] + (st[3] + i)]

layout_rank(tag) == IF tag = 0 THEN 3 ELSE 2

layout_filespace(tag, dims, g, st, sz) ==
    IF tag = 0 THEN layout0_filespace(dims, st, sz)
    ELSE layout1_filespace(dims, g[2], st, sz)

\* A kernel that leaves its memory dataspace open when the file hyperslab
\* cannot be selected.
KernelSetup_leak(tag, dset_ok, f, a, r, ndebug) ==
    LET sz  == ArgLocal(a, r)
        str == ContiguousStride(ArgStride(a, r), sz, esio_type_ncomponents(a.type))
    IN  IF a.fault = "dxpl"
        THEN [st |-> "fail",
              ev |-> << <<"open", "plist">>, <<"close", "plist">> >> \o Raise("EFAILED")]
        ELSE IF a.fault = "memsel" \/ str[3] < 1
        THEN [st |-> "fail",
              ev |-> << <<"open", "plist">>, <<"open", "memspace">>,
                        <<"close", "plist">>, <<"close", "memspace">> >> \o Raise("EFAILED")]
        ELSE IF ~dset_ok
        THEN (IF ndebug
              THEN [st |-> "fail",
                    ev |-> << <<"open", "plist">>, <<"open", "memspace">>,
                              <<"close", "plist">>, <<"close", "memspace">>,
                              <<"close", "invalid">> >> \o Raise("EFAILED")]
              ELSE [st |-> "assert",
                    ev |-> << <<"open", "plist">>, <<"open", "memspace">> >>])
        ELSE IF a.fault = "filesel" \/ Len(f.dims) # layout_rank(tag)
        THEN [st |-> "fail",
              ev |-> << <<"open", "plist">>, <<"open", "memspace">>,
                        <<"open", "filespace">>, <<"close", "plist">>,
                        <<"close", "filespace">> >> \o Raise("EFAILED")]
        ELSE [st |-> "ok",
              ev |-> << <<"open", "plist">>, <<"open", "memspace">>,
                        <<"open", "filespace">> >>]

\* The steps of the kernel before the transfer itself: transfer property
\* list, memory hyperslabs, file hyperslab.  `st` is "ok" when the rank
\* reaches OPFUNC, "fail" when a step failed and the kernel returned
\* ESIO_EFAILED, "assert" when assert(filespace >= 0) stops a debug build;
\* `ev` lists the objects the steps created and closed.
KernelSetup(tag, dset_ok, f, a, r, ndebug) ==
    LET sz  == ArgLocal(a, r)
        str == ContiguousStride(ArgStride(a, r), sz, esio_type_ncomponents(a.type))
    IN  IF a.fault = "dxpl"
        THEN [st |-> "fail",
              ev |-> << <<"open", "plist">>, <<"close", "plist">> >> \o Raise("EFAILED")]
        ELSE IF a.fault = "memsel" \/ str[3] < 1
        THEN [st |-> "fail",
              ev |-> << <<"open", "plist">>, <<"open", "memspace">>,
                        <<"close", "plist">>, <<"close", "memspace">> >> \o Raise("EFAILED")]
        ELSE IF ~dset_ok
        THEN (IF ndebug
              THEN [st |-> "fail",
                    ev |-> << <<"open", "plist">>, <<"open", "memspace">>,
                              <<"close", "plist">>, <<"close", "memspace">>,
                              <<"close", "invalid">> >> \o Raise("EFAILED")]
              ELSE [st |-> "assert",
                    ev |-> << <<"open", "plist">>, <<"open", "memspace">> >>])
        ELSE IF a.fault = "filesel" \/ Len(f.dims) # layout_rank(tag)
        THEN [st |-> "fail",
              ev |-> << <<"open", "plist">>, <<"open", "memspace">>,
                        <<"open", "filespace">>, <<"close", "plist">>,
                        <<"close", "memspace">>, <<"close", "filespace">> >> \o Raise("EFAILED")]
        ELSE [st |-> "ok",
              ev |-> << <<"open", "plist">>, <<"open", "memspace">>,
                        <<"open", "filespace">> >>]

\* Whether the container accepts a transfer between the memory selection M
\* of a memory space of nelems scalars and the file selection F of a dataset
\* of datalen elements.
SelectionsOk(M, F, nelems, datalen) ==
    /\ Cardinality(M) = Len(F)
    /\ \A o \in M : o < nelems
    /\ \A m \in 1 .. Len(F) : F[m] >= 0 /\ F[m] < datalen

\* The strides the kernel is called with on rank r.
KernelStride(a, r) ==
    ContiguousStride(ArgStride(a, r), ArgLocal(a, r), esio_type_ncomponents(a.type))

\* Whether the container accepts rank r's transfer between its selections.
TransferOk(op, tag, f, a, r, writable) ==
    /\ a.fault # "transfer"
    /\ op = "write" => writable
    /\ SelectionsOk(
          layout0_memspace(ArgLocal(a, r), KernelStride(a, r)),
          layout_filespace(tag, f.dims, ArgGlobal(a), ArgStart(a, r), ArgLocal(a, r)),
          ArgLocal(a, r)[1] * KernelStride(a, r)[1],
          Len(f.data))

\* The m-th selected memory element M[m] of buf (in increasing address
\* order) goes to the m-th selected file element F[m], converted.
Scatter(data, M, F, buf, src, dst) ==
    [n \in 1 .. Len(data) |->
        IF \E m \in 1 .. Len(F) : F[m] = n - 1
        THEN H5Tconvert(src, dst,
                        buf[M[CHOOSE m \in 1 .. Len(F) : F[m] = n - 1] + 1])
        ELSE data[n]]

\* The converse transfer into a buffer of buflen scalars: file element F[m]
\* goes to buffer offset M[m].
Gather(data, M, F, buflen, src, dst) ==
    [o \in 1 .. buflen |->
        IF \E m \in 1 .. Len(M) : M[m] = o - 1
        THEN H5Tconvert(src, dst,
                        data[F[CHOOSE m \in 1 .. Len(M) : M[m] = o - 1] + 1])
        ELSE Untouched]

\* H5Dwrite on rank r between the kernel's selections.
H5Dwrite(data, tag, f, a, r) ==
    Scatter(data,
            SortedSeq(layout0_memspace(ArgLocal(a, r), KernelStride(a, r))),
            layout_filespace(tag, f.dims, ArgGlobal(a), ArgStart(a, r), ArgLocal(a, r)),
            WriteBuf(a, r), a.type, f.type)

\* A read that lays the elements out contiguously in the caller's buffer,
\* whatever strides the caller passed.
H5Dread_contiguous(f, tag, a, r) ==
    Gather(f.data,
           SortedSeq(layout0_memspace(ArgLocal(a, r),
               ContiguousStride(<<0, 0, 0>>, ArgLocal(a, r),
                                esio_type_ncomponents(a.type)))),
           layout_filespace(tag, f.dims, ArgGlobal(a), ArgStart(a, r), ArgLocal(a, r)),
           BufLen(a, r), f.type, a.type)

\* H5Dread on rank r between the kernel's selections.
H5Dread(f, tag, a, r) ==
    Gather(f.data,
           SortedSeq(layout0_memspace(ArgLocal(a, r), KernelStride(a, r))),
           layout_filespace(tag, f.dims, ArgGlobal(a), ArgStart(a, r), ArgLocal(a, r)),
           BufLen(a, r), f.type, a.type)

RECURSIVE WriteRanks(_, _, _, _, _)
WriteRanks(data, tag, f, a, r) ==
    IF r = NRanks THEN data
    ELSE WriteRanks(H5Dwrite(data, tag, f, a, r), tag, f, a, r + 1)

\* The collective transfer once every rank's steps before it (pre) and the
\* container's verdict on every rank's transfer (tok) are known: data moves
\* when all ranks take part and all their transfers are accepted.
layout_field_transfer(op, tag, f, a, pre, tok) ==
    [k    |-> [r \in Ranks |->
                 IF pre[r].st # "ok" THEN pre[r].st
                 ELSE IF ~tok[r] THEN "fail"
                 ELSE IF \A q \in Ranks : tok[q] THEN "ok" ELSE "hang"],
     ev   |-> [r \in Ranks |->
                 IF pre[r].st # "ok" THEN pre[r].ev
                 ELSE IF ~tok[r] \/ \A q \in Ranks : tok[q]
                 THEN pre[r].ev \o << <<"OPFUNC", op>>,
                                     <<"close", "filespace">>,
                                     <<"close", "memspace">>,
                                     <<"close", "plist">> >>
                        \o (IF tok[r] THEN <<>> ELSE Raise("EFAILED"))
                 ELSE pre[r].ev \o << <<"OPFUNC", op>> >>],
     data |-> IF op = "write" /\ \A q \in Ranks : tok[q]
              THEN WriteRanks(f.data, tag, f, a, 0)
              ELSE f.data,
     rbuf |-> [r \in Ranks |->
                 IF op = "read" /\ \A q \in Ranks : tok[q]
                 THEN H5Dread(f, tag, a, r)
                 ELSE FreshBuf(a, r)]]

\* The kernel after every rank's setup steps (pre).
layout_field_setup(op, tag, f, a, writable, pre) ==
    layout_field_transfer(op, tag, f, a, pre,
        [r \in Ranks |-> pre[r].st = "ok" /\ TransferOk(op, tag, f, a, r, writable)])

\* The collective kernel call of layout `tag` by the ranks V: per rank
\* "ok", "fail" (ESIO_EFAILED), "assert" or "hang", the dataset contents
\* afterwards and the read buffers.
layout_field_op(op, tag, dset_ok, f, a, V, writable, ndebug) ==
    layout_field_setup(op, tag, f, a, writable,
        [r \in Ranks |-> IF r \in V
                         THEN KernelSetup(tag, dset_ok, f, a, r, ndebug)
                         ELSE [st |-> "absent", ev |-> <<>>]])

\* ----------------------------------------------------- outcome of a call
\* Per rank: the code returned, the first code handed to the error hook
\* (0 when none), and whether the rank returned, blocks in a collective
\* point ("hang") or was stopped by a failed assert ("assert").
Out(ret, raised, st) == [ret |-> ret, raised |-> raised, st |-> st]
Success == Out(ESIO_SUCCESS, 0, "ret")
\* ESIO_ERROR(msg, code): report to the hook, then return the code.
ESIO_ERROR(code) == Out(code, code, "ret")
Blocked == Out(ESIO_SUCCESS, 0, "hang")
AssertFailed == Out(ESIO_SUCCESS, 0, "assert")
NoBufs == [r \in Ranks |-> <<>>]

\* ------------------------------------------------------ field metadata codec
\* A codec that records the baseline tag whatever layout is active.
esio_field_metadata_write_untagged(f, layout_tag, nc, nb, na, type_id) ==
    [f EXCEPT !.meta = <<ESIO_MAJOR_VERSION, ESIO_MINOR_VERSION,
                         ESIO_POINT_VERSION, 0, nc, nb, na,
                         esio_type_ncomponents(type_id)>>]

\* The 8-integer attribute "esio_metadata" of a dataset.
esio_field_metadata_write(f, layout_tag, nc, nb, na, type_id) ==
    [f EXCEPT !.meta = <<ESIO_MAJOR_VERSION, ESIO_MINOR_VERSION,
                         ESIO_POINT_VERSION, layout_tag, nc, nb, na,
                         esio_type_ncomponents(type_id)>>]

\* The calls esio_field_metadata_read makes on the container driver: it
\* saves the driver's error handler, silences it, reads the attribute and
\* puts the saved handler back.
MetadataProbe ==
    << <<"H5Eget_auto2", "saved">>, <<"H5Eset_auto2", "NULL">>,
       <<"H5LTget_attribute_int", "esio_metadata">>,
       <<"H5Eset_auto2", "saved">> >>

\* A metadata read that reports an attribute it cannot read to the hook.
esio_field_metadata_read_loud(f) ==
    IF ~f.dset \/ f.meta = <<>>
    THEN [err |-> 0 - 1, set |-> FALSE, layout_tag |-> 0, nc |-> 0, nb |-> 0,
          na |-> 0, ncomponents |-> 0, raised |-> ESIO_EFAILED,
          ev |-> MetadataProbe \o Raise("EFAILED")]
    ELSE IF Len(f.meta) > ESIO_FIELD_METADATA_SIZE
    THEN [err |-> 0, set |-> FALSE, layout_tag |-> 0, nc |-> 0, nb |-> 0,
          na |-> 0, ncomponents |-> 0, raised |-> ESIO_ESANITY,
          ev |-> MetadataProbe \o Raise("ESANITY")]
    ELSE [err |-> 0, set |-> TRUE, layout_tag |-> f.meta[4], nc |-> f.meta[5],
          nb |-> f.meta[6], na |-> f.meta[7], ncomponents |-> f.meta[8],
          raised |-> IF f.meta[4] < 0 \/ f.meta[4] >= esio_nlayout
                     THEN ESIO_ESANITY ELSE 0,
          ev |-> IF f.meta[4] < 0 \/ f.meta[4] >= esio_nlayout
                 THEN MetadataProbe \o Raise("ESANITY") ELSE MetadataProbe]

\* A metadata read that leaves on a failed sanity check before it has put
\* the driver's handler back.
esio_field_metadata_read_norestore(f) ==
    IF ~f.dset \/ f.meta = <<>>
    THEN [err |-> 0 - 1, set |-> FALSE, layout_tag |-> 0, nc |-> 0, nb |-> 0,
          na |-> 0, ncomponents |-> 0, raised |-> 0, ev |-> MetadataProbe]
    ELSE IF Len(f.meta) > ESIO_FIELD_METADATA_SIZE
    THEN [err |-> 0, set |-> FALSE, layout_tag |-> 0, nc |-> 0, nb |-> 0,
          na |-> 0, ncomponents |-> 0, raised |-> ESIO_ESANITY,
          ev |-> SubSeq(MetadataProbe, 1, 3) \o Raise("ESANITY")]
    ELSE [err |-> 0, set |-> TRUE, layout_tag |-> f.meta[4], nc |-> f.meta[5],
          nb |-> f.meta[6], na |-> f.meta[7], ncomponents |-> f.meta[8],
          raised |-> IF f.meta[4] < 0 \/ f.meta[4] >= esio_nlayout
                     THEN ESIO_ESANITY ELSE 0,
          ev |-> IF f.meta[4] < 0 \/ f.meta[4] >= esio_nlayout
                 THEN SubSeq(MetadataProbe, 1, 3) \o Raise("ESANITY")
                 ELSE MetadataProbe]

\* err < 0 when the attribute cannot be read, and nothing is reported
\* then.  An attribute longer than the buffer overwrites the sentinel:
\* ESIO_ESANITY is reported and err handed back with no outgoing argument
\* stored (`set` FALSE).  Otherwise the outgoing arguments are stored, and
\* ESIO_ESANITY reported and err handed back when the tag names no layout.
\* `raised` is what was reported to the hook, `ev` the driver calls made.
esio_field_metadata_read(f) ==
    IF ~f.dset \/ f.meta = <<>>
    THEN [err |-> 0 - 1, set |-> FALSE, layout_tag |-> 0, nc |-> 0, nb |-> 0,
          na |-> 0, ncomponents |-> 0, raised |-> 0, ev |-> MetadataProbe]
    ELSE IF Len(f.meta) > ESIO_FIELD_METADATA_SIZE
    THEN [err |-> 0, set |-> FALSE, layout_tag |-> 0, nc |-> 0, nb |-> 0,
          na |-> 0, ncomponents |-> 0, raised |-> ESIO_ESANITY,
          ev |-> MetadataProbe \o Raise("ESANITY")]
    ELSE [err |-> 0, set |-> TRUE, layout_tag |-> f.meta[4], nc |-> f.meta[5],
          nb |-> f.meta[6], na |-> f.meta[7], ncomponents |-> f.meta[8],
          raised |-> IF f.meta[4] < 0 \/ f.meta[4] >= esio_nlayout
                     THEN ESIO_ESANITY ELSE 0,
          ev |-> IF f.meta[4] < 0 \/ f.meta[4] >= esio_nlayout
                 THEN MetadataProbe \o Raise("ESANITY") ELSE MetadataProbe]

\* ---------------------------------------------------- field transfer engine
\* Argument checks that leave out the local counts.
field_args_check_nocount(s, a, r) ==
    IF \/ a.bad \in {"s_null", "name_null", "field_null"}
       \/ s.file_id = NoId
       \/ \E d \in 1 .. 3 : ArgGlobal(a)[d] < 0 \/ ArgStart(a, r)[d] < 0
    THEN ESIO_EINVAL ELSE 0

\* The argument checks every rank makes on entry.
field_args_check(s, a, r) ==
    LET g  == ArgGlobal(a)
        st == ArgStart(a, r)
        sz == ArgLocal(a, r)
    IN  IF a.bad = "s_null"          THEN ESIO_EINVAL
        ELSE IF s.file_id = NoId     THEN ESIO_EINVAL
        ELSE IF a.bad = "name_null"  THEN ESIO_EINVAL
        ELSE IF a.bad = "field_null" THEN ESIO_EINVAL
        ELSE IF g[1]  < 0 THEN ESIO_EINVAL
        ELSE IF st[1] < 0 THEN ESIO_EINVAL
        ELSE IF sz[1] < 1 THEN ESIO_EINVAL
        ELSE IF g[2]  < 0 THEN ESIO_EINVAL
        ELSE IF st[2] < 0 THEN ESIO_EINVAL
        ELSE IF sz[2] < 1 THEN ESIO_EINVAL
        ELSE IF g[3]  < 0 THEN ESIO_EINVAL
        ELSE IF st[3] < 0 THEN ESIO_EINVAL
        ELSE IF sz[3] < 1 THEN ESIO_EINVAL
        ELSE 0

\* esio_field_create: filespace of the active layout, dataset, metadata.
\* `ok` tells whether a dataset identifier came back; otherwise `code` is
\* the error code that was reported and comes back in its place.  `f` is
\* the dataset afterwards and `ev` the objects created and closed; fault
\* "metadata" makes the write of the attribute fail.
esio_field_create(s, f, nc, nb, na, type_id, fault) ==
    IF esio_layout_tag(s.layout_tag) # s.layout_tag
    THEN [ok |-> FALSE, code |-> ESIO_ESANITY, f |-> f, ev |-> Raise("ESANITY")]
    ELSE IF ~s.file_id.rw \/ f.dset
    THEN [ok |-> FALSE, code |-> ESIO_ESANITY, f |-> f,
          ev |-> << <<"open", "newspace">>, <<"H5Dcreate1", "failed">> >>
                   \o Raise("ESANITY")]
    ELSE LET dims == esio_layout_filespace_creator(s.layout_tag, nc, nb, na)
             made == [dset |-> TRUE, dims |-> dims, type |-> type_id,
                      data |-> [n \in 1 .. nc * nb * na |-> 0],
                      meta |-> <<>>]
         IN  IF fault = "metadata"
             THEN [ok |-> FALSE, code |-> ESIO_EFAILED, f |-> made,
                   ev |-> << <<"open", "newspace">>, <<"open", "dset">> >>
                            \o Raise("EFAILED")]
             ELSE [ok |-> TRUE, code |-> 0,
                   f  |-> esio_field_metadata_write(made, s.layout_tag,
                                                    nc, nb, na, type_id),
                   ev |-> << <<"open", "newspace">>, <<"open", "dset">>,
                             <<"close", "newspace">> >>]

\* What the ranks that passed the argument checks get once the kernel of
\* layout `tag` has run; `fail` is what a failed kernel makes the call return.
AfterKernel(v, kres, fail) ==
    [r \in Ranks |->
        IF v[r] # 0 THEN ESIO_ERROR(v[r])
        ELSE IF kres.k[r] = "ok" THEN Success
        ELSE IF kres.k[r] = "fail" THEN fail
        ELSE IF kres.k[r] = "assert" THEN AssertFailed
        ELSE Blocked]

\* Size checks that leave out the A direction.
field_write_size_check_noA(g, type_id, mstat) ==
    IF g[1] # mstat.nc THEN ESIO_EINVAL
    ELSE IF g[2] # mstat.nb THEN ESIO_EINVAL
    ELSE IF esio_type_ncomponents(type_id) # mstat.ncomponents THEN ESIO_EINVAL
    ELSE 0

\* Size checks that leave out the C direction.
field_read_size_check_noC(g, type_id, status) ==
    IF g[2] # status.nb THEN ESIO_EINVAL
    ELSE IF g[3] # status.na THEN ESIO_EINVAL
    ELSE IF esio_type_ncomponents(type_id) # status.ncomponents THEN ESIO_EINVAL
    ELSE 0

\* A dispatch on the handle's active layout instead of the stored one.
field_reader_layout_active(s, layout_tag) == s.layout_tag

\* The size checks an existing field makes a write pass: EINVAL on the first
\* of nc, nb, na, ncomponents that differs from the stored value.
field_write_size_check(g, type_id, mstat) ==
    IF g[1] # mstat.nc THEN ESIO_EINVAL
    ELSE IF g[2] # mstat.nb THEN ESIO_EINVAL
    ELSE IF g[3] # mstat.na THEN ESIO_EINVAL
    ELSE IF esio_type_ncomponents(type_id) # mstat.ncomponents THEN ESIO_EINVAL
    ELSE 0

\* The same checks on a read.
field_read_size_check(g, type_id, status) ==
    IF g[1] # status.nc THEN ESIO_EINVAL
    ELSE IF g[2] # status.nb THEN ESIO_EINVAL
    ELSE IF g[3] # status.na THEN ESIO_EINVAL
    ELSE IF esio_type_ncomponents(type_id) # status.ncomponents THEN ESIO_EINVAL
    ELSE 0

\* The registry entry whose field_writer overwrites an existing field, and
\* the one whose field_reader reads it: the one the metadata names.
field_writer_layout(s, layout_tag) == layout_tag
field_reader_layout(s, layout_tag) == layout_tag

PutField(dsk, s, name, f) ==
    [dsk EXCEPT ![s.file_id.path].fields[name] = f]

\* The calls of a rank that has dispatched to the kernel of a layout with
\* the dataset identifier id ("dset", or "invalid" when it is an error
\* code): pev before the dispatch, the kernel's own, and once the kernel
\* has returned (k is how it ended) esio_field_close, which reports an
\* identifier it cannot close; a write then reports the writer's failure.
DispatchEvents(op, pev, id, kev, k) ==
    pev \o << <<"esio_layout", "inside">>, <<"dispatch", id>> >> \o kev
        \o (IF k \in {"ok", "fail"} THEN << <<"close", id>> >> ELSE <<>>)
        \o (IF k \in {"ok", "fail"} /\ id = "invalid"
            THEN Raise("EFAILED") ELSE <<>>)
        \o (IF k = "fail" /\ op = "write" THEN Raise("EFAILED") ELSE <<>>)

\* The end of a write once the kernel has run on the dataset f: the file
\* afterwards and each rank's outcome.  created is FALSE when
\* esio_field_create failed before, raised is the first code reported
\* before the dispatch (0 when none), pev the calls made before it.
field_write_finish(s, dsk, a, v, f, created, raised, pev, kres) ==
    [disk |-> PutField(dsk, s, a.name, [f EXCEPT !.data = kres.data]),
     out  |-> [r \in Ranks |->
                 IF raised = 0 \/ v[r] # 0
                 THEN AfterKernel(v, kres, ESIO_ERROR(ESIO_EFAILED))[r]
                 ELSE [AfterKernel(v, kres, ESIO_ERROR(ESIO_EFAILED))[r]
                          EXCEPT !.raised = raised]],
     rbuf |-> NoBufs,
     ev   |-> [r \in Ranks |->
                 IF v[r] # 0 THEN Raise("EINVAL")
                 ELSE DispatchEvents("write", pev,
                                     IF created THEN "dset" ELSE "invalid",
                                     kres.ev[r], kres.k[r])]]

\* The end of a read: the reader's status is not looked at.
field_read_finish(dsk, v, raised, pev, kres) ==
    [disk |-> dsk,
     out  |-> [r \in Ranks |->
                 IF raised = 0 \/ v[r] # 0
                 THEN AfterKernel(v, kres,
                                  Out(ESIO_SUCCESS, ESIO_EFAILED, "ret"))[r]
                 ELSE [AfterKernel(v, kres,
                                   Out(ESIO_SUCCESS, ESIO_EFAILED, "ret"))[r]
                          EXCEPT !.raised = raised]],
     rbuf |-> kres.rbuf,
     ev   |-> [r \in Ranks |->
                 IF v[r] # 0 THEN Raise("EINVAL")
                 ELSE DispatchEvents("read", pev, "dset", kres.ev[r], kres.k[r])]]

\* The calls that open an existing dataset and look up its type.
OpenEvents ==
    << <<"open", "dset">>, <<"open", "type">>, <<"close", "type">> >>

esio_field_write_internal(s, dsk, a, ndebug) ==
    LET v == [r \in Ranks |-> field_args_check(s, a, r)]
        V == {r \in Ranks : v[r] = 0}
        g == ArgGlobal(a)
        early(o) == [r \in Ranks |-> IF v[r] # 0 THEN ESIO_ERROR(v[r]) ELSE o]
        calls(e) == [r \in Ranks |-> IF v[r] # 0 THEN Raise("EINVAL") ELSE e]
    IN  IF V = {}
        THEN [disk |-> dsk, out |-> early(Success), rbuf |-> NoBufs,
              ev |-> calls(<<>>)]
        ELSE
        LET f     == dsk[s.file_id.path].fields[a.name]
            mstat == esio_field_metadata_read(f)
            first(o) == IF mstat.raised # 0
                        THEN [o EXCEPT !.raised = mstat.raised] ELSE o
        IN  IF mstat.err < 0
            THEN \* Field did not exist
                 IF V # Ranks
                 THEN [disk |-> dsk, out |-> early(first(Blocked)),
                       rbuf |-> NoBufs, ev |-> calls(mstat.ev)]
                 ELSE LET cr == esio_field_create(s, f, g[1], g[2], g[3],
                                                  a.type, a.fault)
                      IN  field_write_finish(s, dsk, a, v, cr.f, cr.ok,
                              IF mstat.raised # 0 THEN mstat.raised ELSE cr.code,
                              mstat.ev \o cr.ev,
                              layout_field_op("write", s.layout_tag, cr.ok,
                                              cr.f, a, V, s.file_id.rw, ndebug))
            ELSE \* Field already existed
                 IF ~mstat.set
                 THEN \* nc is compared with a field_nc that was not stored
                      [disk |-> dsk,
                       out |-> early(Out(ESIO_SUCCESS, mstat.raised, "wild")),
                       rbuf |-> NoBufs,
                       ev |-> calls(mstat.ev \o << <<"read", "uninitialised">> >>)]
                 ELSE IF field_write_size_check(g, a.type, mstat) # 0
                 THEN [disk |-> dsk,
                       out  |-> early(first(ESIO_ERROR(
                                   field_write_size_check(g, a.type, mstat)))),
                       rbuf |-> NoBufs, ev |-> calls(mstat.ev \o Raise("EINVAL"))]
                 ELSE IF ~H5Tfind(a.type, f.type)
                 THEN [disk |-> dsk,
                       out |-> early(first(ESIO_ERROR(ESIO_EINVAL))),
                       rbuf |-> NoBufs,
                       ev |-> calls(mstat.ev \o OpenEvents \o Raise("EINVAL"))]
                 ELSE IF mstat.layout_tag < 0 \/ mstat.layout_tag >= esio_nlayout
                 THEN \* esio_layout[layout_tag] is read outside the table
                      [disk |-> dsk,
                       out |-> early(Out(ESIO_SUCCESS, mstat.raised, "wild")),
                       rbuf |-> NoBufs,
                       ev |-> calls(mstat.ev \o OpenEvents
                                      \o << <<"esio_layout", "outside">> >>)]
                 ELSE field_write_finish(s, dsk, a, v, f, TRUE, mstat.raised,
                          mstat.ev \o OpenEvents,
                          layout_field_op("write",
                              field_writer_layout(s, mstat.layout_tag),
                              TRUE, f, a, V, s.file_id.rw, ndebug))

esio_field_read_internal(s, dsk, a, ndebug) ==
    LET v == [r \in Ranks |-> field_args_check(s, a, r)]
        V == {r \in Ranks : v[r] = 0}
        g == ArgGlobal(a)
        early(o) == [r \in Ranks |-> IF v[r] # 0 THEN ESIO_ERROR(v[r]) ELSE o]
        calls(e) == [r \in Ranks |-> IF v[r] # 0 THEN Raise("EINVAL") ELSE e]
        fresh == [r \in Ranks |-> FreshBuf(a, r)]
    IN  IF V = {}
        THEN [disk |-> dsk, out |-> early(Success), rbuf |-> fresh,
              ev |-> calls(<<>>)]
        ELSE
        LET f      == dsk[s.file_id.path].fields[a.name]
            status == esio_field_metadata_read(f)
            first(o) == IF status.raised # 0
                        THEN [o EXCEPT !.raised = status.raised] ELSE o
        IN  IF status.err < 0
            THEN [disk |-> dsk, out |-> early(first(ESIO_ERROR(ESIO_EFAILED))),
                  rbuf |-> fresh, ev |-> calls(status.ev \o Raise("EFAILED"))]
            ELSE IF ~status.set
            THEN \* nc is compared with a field_nc that was not stored
                 [disk |-> dsk,
                  out |-> early(Out(ESIO_SUCCESS, status.raised, "wild")),
                  rbuf |-> fresh,
                  ev |-> calls(status.ev \o << <<"read", "uninitialised">> >>)]
            ELSE IF field_read_size_check(g, a.type, status) # 0
            THEN [disk |-> dsk,
                  out  |-> early(first(ESIO_ERROR(
                              field_read_size_check(g, a.type, status)))),
                  rbuf |-> fresh, ev |-> calls(status.ev \o Raise("EINVAL"))]
            ELSE IF ~H5Tfind(a.type, f.type)
            THEN [disk |-> dsk, out |-> early(first(ESIO_ERROR(ESIO_EINVAL))),
                  rbuf |-> fresh,
                  ev |-> calls(status.ev \o OpenEvents \o Raise("EINVAL"))]
            ELSE IF status.layout_tag < 0 \/ status.layout_tag >= esio_nlayout
            THEN \* esio_layout[layout_tag] is read outside the table
                 [disk |-> dsk,
                  out |-> early(Out(ESIO_SUCCESS, status.raised, "wild")),
                  rbuf |-> fresh,
                  ev |-> calls(status.ev \o OpenEvents
                                 \o << <<"esio_layout", "outside">> >>)]
            ELSE field_read_finish(dsk, v, status.raised,
                     status.ev \o OpenEvents,
                     layout_field_op("read",
                         field_reader_layout(s, status.layout_tag),
                         TRUE, f, a, V, s.file_id.rw, ndebug))

\* A size query that hands the extents back fastest direction first.
esio_field_size_reversed(s, dsk, a) ==
    IF a.bad = "s_null" \/ s.file_id = NoId \/ a.bad # "none"
    THEN [ret |-> ESIO_EINVAL, raised |-> ESIO_EINVAL,
          size |-> <<Untouched, Untouched, Untouched>>, ev |-> Raise("EINVAL")]
    ELSE (LET m == esio_field_metadata_read(dsk[s.file_id.path].fields[a.name])
          IN  IF m.err < 0
              THEN [ret |-> ESIO_EFAILED,
                    raised |-> IF m.raised # 0 THEN m.raised ELSE ESIO_EFAILED,
                    size |-> <<Untouched, Untouched, Untouched>>,
                    ev |-> m.ev \o Raise("EFAILED")]
              ELSE [ret |-> ESIO_SUCCESS, raised |-> m.raised,
                    size |-> IF m.set THEN <<m.na, m.nb, m.nc>>
                             ELSE <<Untouched, Untouched, Untouched>>,
                    ev |-> m.ev])

\* esio_field_size: the code returned, the first code reported to the hook
\* (0 when none), the caller's <<*nc, *nb, *na>> afterwards (Untouched
\* where nothing was stored) and the driver calls made.  The status of
\* the metadata read alone decides between ESIO_EFAILED and ESIO_SUCCESS.
esio_field_size(s, dsk, a) ==
    IF a.bad = "s_null"
    THEN [ret |-> ESIO_EINVAL, raised |-> ESIO_EINVAL,
          size |-> <<Untouched, Untouched, Untouched>>, ev |-> Raise("EINVAL")]
    ELSE IF s.file_id = NoId
    THEN [ret |-> ESIO_EINVAL, raised |-> ESIO_EINVAL,
          size |-> <<Untouched, Untouched, Untouched>>, ev |-> Raise("EINVAL")]
    ELSE IF a.bad # "none"
    THEN \* name, nc, nb or na is NULL
         [ret |-> ESIO_EINVAL, raised |-> ESIO_EINVAL,
          size |-> <<Untouched, Untouched, Untouched>>, ev |-> Raise("EINVAL")]
    ELSE (LET m == esio_field_metadata_read(dsk[s.file_id.path].fields[a.name])
          IN  IF m.err < 0
              THEN [ret |-> ESIO_EFAILED,
                    raised |-> IF m.raised # 0 THEN m.raised ELSE ESIO_EFAILED,
                    size |-> <<Untouched, Untouched, Untouched>>,
                    ev |-> m.ev \o Raise("EFAILED")]
              ELSE [ret |-> ESIO_SUCCESS, raised |-> m.raised,
                    size |-> IF m.set THEN <<m.nc, m.nb, m.na>>
                             ELSE <<Untouched, Untouched, Untouched>>,
                    ev |-> m.ev])

\* ------------------------------------------------------------- file lifecycle
\* Each returns the handle and the disk afterwards and the code returned.
\* A create that does not look whether a container is already open.
esio_file_create_unguarded(s, dsk, snull, file, overwrite) ==
    IF snull THEN [s |-> s, disk |-> dsk, ret |-> ESIO_EINVAL]
    ELSE IF ~overwrite /\ dsk[file].exists
    THEN [s |-> s, disk |-> dsk, ret |-> ESIO_EFAILED]
    ELSE [s    |-> [s EXCEPT !.file_id = FileId(file, TRUE)],
          disk |-> [dsk EXCEPT ![file] = EmptyFile],
          ret  |-> ESIO_SUCCESS]

\* A create that clobbers an existing file whatever `overwrite` says.
esio_file_create_clobber(s, dsk, snull, file, overwrite) ==
    IF snull THEN [s |-> s, disk |-> dsk, ret |-> ESIO_EINVAL]
    ELSE IF s.file_id # NoId THEN [s |-> s, disk |-> dsk, ret |-> ESIO_EINVAL]
    ELSE [s    |-> [s EXCEPT !.file_id = FileId(file, TRUE)],
          disk |-> [dsk EXCEPT ![file] = EmptyFile],
          ret  |-> ESIO_SUCCESS]

esio_file_create(s, dsk, snull, file, overwrite) ==
    IF snull THEN [s |-> s, disk |-> dsk, ret |-> ESIO_EINVAL]
    ELSE IF s.file_id # NoId THEN [s |-> s, disk |-> dsk, ret |-> ESIO_EINVAL]
    ELSE IF overwrite
    THEN \* H5F_ACC_TRUNC: create new file or truncate existing file
         [s    |-> [s EXCEPT !.file_id = FileId(file, TRUE)],
          disk |-> [dsk EXCEPT ![file] = EmptyFile],
          ret  |-> ESIO_SUCCESS]
    ELSE \* H5F_ACC_EXCL: avoid overwriting existing file
         IF dsk[file].exists
         THEN [s |-> s, disk |-> dsk, ret |-> ESIO_EFAILED]
         ELSE [s    |-> [s EXCEPT !.file_id = FileId(file, TRUE)],
               disk |-> [dsk EXCEPT ![file] = EmptyFile],
               ret  |-> ESIO_SUCCESS]

esio_file_open(s, dsk, snull, file, readwrite) ==
    IF snull THEN [s |-> s, disk |-> dsk, ret |-> ESIO_EINVAL]
    ELSE IF s.file_id # NoId THEN [s |-> s, disk |-> dsk, ret |-> ESIO_EINVAL]
    ELSE IF ~dsk[file].exists
    THEN [s |-> s, disk |-> dsk, ret |-> ESIO_EFAILED]
    ELSE [s    |-> [s EXCEPT !.file_id = FileId(file, readwrite)],
          disk |-> dsk,
          ret  |-> ESIO_SUCCESS]

\* A close that leaves the container's identifier in the handle.
esio_file_close_keep(s, dsk, snull) ==
    IF snull THEN [s |-> s, disk |-> dsk, ret |-> ESIO_EINVAL]
    ELSE IF s.file_id = NoId THEN [s |-> s, disk |-> dsk, ret |-> ESIO_EINVAL]
    ELSE [s |-> s, disk |-> dsk, ret |-> ESIO_SUCCESS]

esio_file_close(s, dsk, snull) ==
    IF snull THEN [s |-> s, disk |-> dsk, ret |-> ESIO_EINVAL]
    ELSE IF s.file_id = NoId THEN [s |-> s, disk |-> dsk, ret |-> ESIO_EINVAL]
    ELSE [s |-> [s EXCEPT !.file_id = NoId], disk |-> dsk, ret |-> ESIO_SUCCESS]

\* esio_init: a fresh handle with no open container and the baseline
\* layout; none (NULL, after reporting ESIO_EINVAL) for a null communicator.
\* An init that starts the handle one past the last registered layout.
esio_init_pastlayouts(comm_null) ==
    [ok |-> ~comm_null, s |-> [file_id |-> NoId, layout_tag |-> esio_nlayout],
     raised |-> IF comm_null THEN ESIO_EINVAL ELSE 0]

esio_init(comm_null) ==
    IF comm_null
    THEN [ok |-> FALSE, s |-> [file_id |-> NoId, layout_tag |-> 0],
          raised |-> ESIO_EINVAL]
    ELSE [ok |-> TRUE, s |-> [file_id |-> NoId, layout_tag |-> 0], raised |-> 0]

\* A finalize that releases the handle without closing its container.
esio_finalize_noclose(s, dsk, snull) ==
    [s |-> s, disk |-> dsk, ret |-> ESIO_SUCCESS, freed |-> ~snull]

\* esio_finalize of a handle that is NULL or live: an open container is
\* closed first (the status of the close is not looked at), then the
\* communicator, the hints and the handle itself are released.
esio_finalize(s, dsk, snull) ==
    IF snull THEN [s |-> s, disk |-> dsk, ret |-> ESIO_SUCCESS, freed |-> FALSE]
    ELSE IF s.file_id # NoId
    THEN [s    |-> esio_file_close(s, dsk, FALSE).s,
          disk |-> esio_file_close(s, dsk, FALSE).disk,
          ret  |-> ESIO_SUCCESS, freed |-> TRUE]
    ELSE [s |-> s, disk |-> dsk, ret |-> ESIO_SUCCESS, freed |-> TRUE]

\* esio_layout_set: the tag must name a registered layout.
esio_layout_set(s, snull, layout_index) ==
    IF snull THEN [s |-> s, ret |-> ESIO_EINVAL]
    ELSE IF layout_index < 0 \/ layout_index >= esio_nlayout
    THEN [s |-> s, ret |-> ESIO_EINVAL]
    ELSE [s |-> [s EXCEPT !.layout_tag = layout_index], ret |-> ESIO_SUCCESS]

\* ------------------------------------------------------- restart rotation
\* File names and templates are C strings: sequences of characters, read
\* with 0-based indices, with the terminator "" at index Len.
DigitChars == <<"0", "1", "2", "3", "4", "5", "6", "7", "8", "9">>
CharAt(str, i) == IF i < Len(str) THEN str[i + 1] ELSE ""
isdigit(c) == \E d \in 1 .. 10 : DigitChars[d] = c
DigitVal(c) == (CHOOSE d \in 1 .. 10 : DigitChars[d] = c) - 1

\* The character codes the comparisons of names see.
CharCode(c) ==
    IF c = "" THEN 0
    ELSE IF c = " " THEN 32
    ELSE IF c = "#" THEN 35
    ELSE IF isdigit(c) THEN 48 + DigitVal(c)
    ELSE IF c = "c" THEN 99
    ELSE IF c = "n" THEN 110
    ELSE 120

\* strtoul(str + i, &endptr, 10) on a string with a digit at index i: the
\* index endptr of the first character past the digits, and their value.
\* The value is only ever compared with INT_MAX - 1 and used below it, so
\* the values past INT_MAX (up to the ULONG_MAX of an out-of-range number)
\* are all kept as INT_MAX.
DigitsEnd(str, i) ==
    CHOOSE e \in (i + 1) .. Len(str) :
        /\ \A q \in i .. (e - 1) : isdigit(CharAt(str, q))
        /\ ~isdigit(CharAt(str, e))

RECURSIVE DecimalValue(_, _, _)
DecimalValue(str, i, e) ==
    IF e <= i THEN 0
    ELSE LET upper == DecimalValue(str, i, e - 1)
             digit == DigitVal(CharAt(str, e - 1))
         IN  IF upper > (INT_MAX - digit) \div 10 THEN INT_MAX
             ELSE 10 * upper + digit

strtoul(str, i) ==
    LET e == DigitsEnd(str, i) IN [endptr |-> e, curr |-> DecimalValue(str, i, e)]

\* The backward scan of restart_nextindex: from the ends of the template
\* (k) and of the name (l), while the characters agree, down to the last
\* '#' of the template (j) and the first digit of the name (i).
RECURSIVE ScanBack(_, _, _, _, _, _)
ScanBack(tmpl, name, i, j, k, l) ==
    IF k > j /\ l > i /\ CharAt(tmpl, k) = CharAt(name, l)
    THEN ScanBack(tmpl, name, i, j, k - 1, l - 1)
    ELSE [k |-> k, l |-> l]

\* The index at which the forward scan of restart_nextindex stops: the
\* first at which the template or the name ends or the two differ.
ScanForward(tmpl, name) ==
    CHOOSE n \in 0 .. Len(tmpl) :
        /\ \A q \in 0 .. (n - 1) :
              CharAt(name, q) # "" /\ CharAt(tmpl, q) = CharAt(name, q)
        /\ \/ CharAt(tmpl, n) = ""
           \/ CharAt(name, n) = ""
           \/ CharAt(tmpl, n) # CharAt(name, n)

\* The last '#' of the template past index i, or i.
FinalHash(tmpl, i) ==
    LET hashes == {q \in (i + 1) .. (Len(tmpl) - 1) : CharAt(tmpl, q) = "#"}
    IN  IF hashes = {} THEN i
        ELSE CHOOSE q \in hashes : \A q2 \in hashes : q2 <= q

\* restart_nextindex once the scans have found the '#' region i .. j of the
\* template, the ends b of the backward scan and the number n in the name.
restart_nextindex_region(tmpl, errval, i, j, b, n) ==
    IF CharAt(tmpl, b.k) # "#" THEN 0
    ELSE IF n.endptr # b.l + 1 THEN 0
    ELSE IF n.curr > INT_MAX - 1 THEN errval
    ELSE IF \E q \in i .. (j - 1) : CharAt(tmpl, q) # "#" THEN errval
    ELSE n.curr + 1

restart_nextindex_at(tmpl, name, errval, i) ==
    IF CharAt(tmpl, i) = "" THEN errval
    ELSE IF CharAt(tmpl, i) # "#" THEN 0
    ELSE IF ~isdigit(CharAt(name, i)) THEN 0
    ELSE restart_nextindex_region(
             tmpl, errval, i, FinalHash(tmpl, i),
             ScanBack(tmpl, name, i, FinalHash(tmpl, i), Len(tmpl), Len(name)),
             strtoul(name, i))

\* One more than the index the name carries in the template's '#' region; 0
\* when the name does not match the template; errval on a template without
\* '#', on an index past INT_MAX - 1 and on a template with two '#' regions.
restart_nextindex(tmpl, name, errval) ==
    restart_nextindex_at(tmpl, name, errval, ScanForward(tmpl, name))

\* strverscmp(3), the order scandir sorts the matches in: characters are
\* compared by code until the first difference, and a difference inside
\* two digit runs is decided by the runs: without leading zeros the longer
\* run is the greater, with leading zeros the runs compare as fractions.
CharClass(c) == IF c = "0" THEN 2 ELSE IF isdigit(c) THEN 1 ELSE 0
CMP == 2
LEN == 3
next_state == <<0, 3, 9,   0, 3, 3,   0, 6, 6,   0, 6, 9>>
result_type ==
    <<CMP, CMP, CMP,  CMP, LEN, CMP,  CMP, CMP, CMP,
      CMP, 0 - 1, 0 - 1,  1, LEN, LEN,  1, LEN, LEN,
      CMP, CMP, CMP,  CMP, CMP, CMP,  CMP, CMP, CMP,
      CMP, 1, 1,  0 - 1, CMP, CMP,  0 - 1, CMP, CMP>>

\* The comparison state when the characters before index p were equal.
RECURSIVE VersState(_, _)
VersState(str, p) ==
    IF p = 0 THEN 0
    ELSE next_state[VersState(str, p - 1) + CharClass(CharAt(str, p - 1)) + 1]

\* The number of digits of str from index p on.
RECURSIVE DigitRun(_, _)
DigitRun(str, p) ==
    IF isdigit(CharAt(str, p)) THEN 1 + DigitRun(str, p + 1) ELSE 0

strverscmp(p1, p2) ==
    IF p1 = p2 THEN 0
    ELSE
    LET p == CHOOSE n \in 0 .. Len(p1) :
                 /\ \A q \in 0 .. (n - 1) : CharAt(p1, q) = CharAt(p2, q)
                 /\ CharAt(p1, n) # CharAt(p2, n)
        c1 == CharAt(p1, p)
        c2 == CharAt(p2, p)
        diff == CharCode(c1) - CharCode(c2)
        state == result_type[(VersState(p1, p) + CharClass(c1)) * 3
                             + CharClass(c2) + 1]
    IN  IF state = CMP THEN diff
        ELSE IF state = LEN
        THEN IF DigitRun(p1, p + 1) > DigitRun(p2, p + 1) THEN 1
             ELSE IF DigitRun(p1, p + 1) < DigitRun(p2, p + 1) THEN 0 - 1
             ELSE diff
        ELSE state

\* scandir(tmpl_dirname, &namelist, filter, compar): the names of the
\* directory d that the filter keeps, in the order of compar.
filter(tmpl, name) == restart_nextindex(tmpl, name, 0)
compar(a, b) == strverscmp(a, b)
SortNames(kept) ==
    [q \in 1 .. Cardinality(kept) |->
        CHOOSE name \in kept :
            Cardinality({m \in kept : compar(m, name) < 0}) = q - 1]
scandir(d, tmpl) == SortNames({name \in DOMAIN d : filter(tmpl, name) # 0})

\* printf's "%*d" of a non-negative value: its decimal digits, preceded by
\* spaces up to the width.
RECURSIVE DecimalDigits(_)
DecimalDigits(v) ==
    IF v < 10 THEN <<DigitChars[v + 1]>>
    ELSE Append(DecimalDigits(v \div 10), DigitChars[(v % 10) + 1])

RECURSIVE Spaces(_)
Spaces(n) == IF n <= 0 THEN <<>> ELSE <<" ">> \o Spaces(n - 1)

FormatIndex(width, v) ==
    Spaces(width - Len(DecimalDigits(v))) \o DecimalDigits(v)

\* (int) ceil(log(m) / log(10)) for m >= 1.
RECURSIVE CeilLog10(_)
CeilLog10(m) == IF m <= 1 THEN 0 ELSE 1 + CeilLog10((m + 9) \div 10)

\* rename(2) in the directory d: the file moves to the new name and
\* replaces what was there.  It fails when the old name does not exist.
Rename(d, from, to) ==
    [name \in (DOMAIN d \ {from}) \cup {to} |->
        IF name = to THEN d[from] ELSE d[name]]

NoDir == [name \in {} |-> <<>>]

\* The loop over the scanned entries, last entry first: an entry whose next
\* index is in 1 .. keep_howmany - 1 is renamed to the name of that index,
\* every other entry is left alone.  It stops at the first rename that fails.
RECURSIVE RenameEntries(_, _, _, _, _, _, _, _, _)
RenameEntry_noskip(d, moves, namelist, n, tmpl, keep_howmany, prefix, ndigits, suffix, next) ==
    IF next <= 0
    THEN RenameEntries(d, moves, namelist, n - 1, tmpl, keep_howmany,
                       prefix, ndigits, suffix)
    ELSE RenameEntries(
             Rename(d, namelist[n],
                    prefix \o FormatIndex(ndigits, next) \o suffix),
             Append(moves, <<namelist[n],
                             prefix \o FormatIndex(ndigits, next) \o suffix>>),
             namelist, n - 1, tmpl, keep_howmany, prefix, ndigits, suffix)

RenameEntry(d, moves, namelist, n, tmpl, keep_howmany, prefix, ndigits, suffix, next) ==
    IF next <= 0 \/ next >= keep_howmany
    THEN RenameEntries(d, moves, namelist, n - 1, tmpl, keep_howmany,
                       prefix, ndigits, suffix)
    ELSE IF namelist[n] \notin DOMAIN d
    THEN [files |-> d, moves |-> moves, failed |-> TRUE]
    ELSE RenameEntries(
             Rename(d, namelist[n],
                    prefix \o FormatIndex(ndigits, next) \o suffix),
             Append(moves, <<namelist[n],
                             prefix \o FormatIndex(ndigits, next) \o suffix>>),
             namelist, n - 1, tmpl, keep_howmany, prefix, ndigits, suffix)

RenameEntries(d, moves, namelist, n, tmpl, keep_howmany, prefix, ndigits, suffix) ==
    IF n = 0 THEN [files |-> d, moves |-> moves, failed |-> FALSE]
    ELSE RenameEntry(d, moves, namelist, n, tmpl, keep_howmany, prefix,
                     ndigits, suffix,
                     restart_nextindex(tmpl, namelist[n], 0 - 1))

RestartResult(ret, d, moves) ==
    [ret |-> ret, raised |-> ret, files |-> d, moves |-> moves]

\* The end of restart_rename: the source file takes the name of index 0.
restart_rename_finish(src_filename, done, dst) ==
    IF done.failed THEN RestartResult(ESIO_EFAILED, done.files, done.moves)
    ELSE IF src_filename \notin DOMAIN done.files
    THEN RestartResult(ESIO_EFAILED, done.files, done.moves)
    ELSE RestartResult(ESIO_SUCCESS, Rename(done.files, src_filename, dst),
                       Append(done.moves, <<src_filename, dst>>))

\* restart_rename once the template is split at its '#' run: the scan of
\* the directory, the loop over the entries and the rename of the source.
restart_rename_scan(d, src_filename, dst_template, keep_howmany, prefix, ndigits, suffix, namelist) ==
    restart_rename_finish(
        src_filename,
        RenameEntries(d, <<>>, namelist, Len(namelist), dst_template,
                      keep_howmany, prefix, ndigits, suffix),
        prefix \o FormatIndex(ndigits, 0) \o suffix)

\* The width of the index: the length of the '#' run, or what
\* keep_howmany - 1 needs when that is more.
WidenDigits(nhash, keep_howmany) ==
    LET n == IF keep_howmany = 1 THEN 1 ELSE CeilLog10(keep_howmany - 1)
    IN  IF nhash > n THEN nhash ELSE n

restart_rename_tworuns(d, src_filename, dst_template, keep_howmany, bad) ==
    IF bad \in {"src_null", "tmpl_null"} THEN RestartResult(ESIO_EFAULT, d, <<>>)
    ELSE IF keep_howmany < 1 THEN RestartResult(ESIO_EINVAL, d, <<>>)
    ELSE IF src_filename \notin DOMAIN d THEN RestartResult(ESIO_EFAILED, d, <<>>)
    ELSE
    LET hashes == {q \in 1 .. Len(dst_template) : dst_template[q] = "#"} IN
    IF hashes = {} THEN RestartResult(ESIO_EINVAL, d, <<>>)
    ELSE
    LET first  == CHOOSE q \in hashes : \A q2 \in hashes : q <= q2
        nhash  == CHOOSE e \in 1 .. Len(dst_template) :
                      /\ \A q \in first .. (first + e - 1) : q \in hashes
                      /\ (first + e) \notin hashes
    IN
    restart_rename_scan(
        d, src_filename, dst_template, keep_howmany,
        SubSeq(dst_template, 1, first - 1),
        WidenDigits(nhash, keep_howmany),
        SubSeq(dst_template, first + nhash, Len(dst_template)),
        scandir(d, dst_template))

restart_rename_nostat(d, src_filename, dst_template, keep_howmany, bad) ==
    IF bad \in {"src_null", "tmpl_null"} THEN RestartResult(ESIO_EFAULT, d, <<>>)
    ELSE IF keep_howmany < 1 THEN RestartResult(ESIO_EINVAL, d, <<>>)
    ELSE
    LET hashes == {q \in 1 .. Len(dst_template) : dst_template[q] = "#"} IN
    IF hashes = {} THEN RestartResult(ESIO_EINVAL, d, <<>>)
    ELSE
    LET first  == CHOOSE q \in hashes : \A q2 \in hashes : q <= q2
        nhash  == CHOOSE e \in 1 .. Len(dst_template) :
                      /\ \A q \in first .. (first + e - 1) : q \in hashes
                      /\ (first + e) \notin hashes
    IN
    IF \E q \in hashes : q >= first + nhash THEN RestartResult(ESIO_EINVAL, d, <<>>)
    ELSE restart_rename_scan(
             d, src_filename, dst_template, keep_howmany,
             SubSeq(dst_template, 1, first - 1),
             WidenDigits(nhash, keep_howmany),
             SubSeq(dst_template, first + nhash, Len(dst_template)),
             scandir(d, dst_template))

\* restart_rename on the directory d, which holds both the source file and
\* the files of the template; bad names a NULL argument.
restart_rename(d, src_filename, dst_template, keep_howmany, bad) ==
    IF bad \in {"src_null", "tmpl_null"} THEN RestartResult(ESIO_EFAULT, d, <<>>)
    ELSE IF keep_howmany < 1 THEN RestartResult(ESIO_EINVAL, d, <<>>)
    ELSE IF src_filename \notin DOMAIN d THEN RestartResult(ESIO_EFAILED, d, <<>>)
    ELSE
    LET hashes == {q \in 1 .. Len(dst_template) : dst_template[q] = "#"} IN
    IF hashes = {} THEN RestartResult(ESIO_EINVAL, d, <<>>)
    ELSE
    LET first  == CHOOSE q \in hashes : \A q2 \in hashes : q <= q2
        nhash  == CHOOSE e \in 1 .. Len(dst_template) :
                      /\ \A q \in first .. (first + e - 1) : q \in hashes
                      /\ (first + e) \notin hashes
    IN
    IF \E q \in hashes : q >= first + nhash THEN RestartResult(ESIO_EINVAL, d, <<>>)
    ELSE restart_rename_scan(
             d, src_filename, dst_template, keep_howmany,
             SubSeq(dst_template, 1, first - 1),
             WidenDigits(nhash, keep_howmany),
             SubSeq(dst_template, first + nhash, Len(dst_template)),
             scandir(d, dst_template))

\* ---------------------------------------------------------------- the state
VARIABLES
    s,       \* the handle (the same on every rank): file_id, layout_tag
    disk,    \* the file system: path -> container
    run,     \* "running", "aborted" or "hung"
    prob,    \* the global extents <<nc, nb, na>> of the program's field
    last,    \* the call that just returned: operation, arguments, the
             \* handle and the disk as the call found them, per-rank
             \* outcome, read buffers; NoCall between calls
    closed,  \* history: the call before was a file_close that succeeded
    track,   \* whether the history variable lastw is kept
    lastw,   \* history: the last field write that succeeded on every rank
    heap,    \* the handle's allocation: "live", "freed" (by esio_finalize)
             \* or "corrupt" (released twice)
    hist,    \* history: whether the calls are kept, the calls made so far
             \* as <<operation, path, succeeded>>, and for every field of
             \* every file the global extents of the write that created it
    files,   \* the directory of the restart files: name -> contents
    rot,     \* the restart_rename call that just returned: arguments, the
             \* directory as the call found it, outcome, the renames it
             \* made in order; or the restart_nextindex call that just
             \* returned: template, name (in src), errval and the value
             \* returned (in ret); NoRotation before it
    ev       \* the calls the field call that just returned made on the
             \* container driver and the layout registry, per rank and in
             \* order, each as <<call, argument>>; empty otherwise

vars == <<s, disk, run, prob, last, closed, track, lastw, heap, hist, files, rot, ev>>

Extents == {e \in (1 .. MaxExtent) \X (1 .. MaxExtent) \X (1 .. MaxExtent) :
              Prod3(e) <= MaxElems}
Pads    == {ZeroStride} \cup (1 .. MaxPad)
Seeds   == 0 .. MaxSeed
Hooks   == {"abort", "off"}

NoArgs == [bad |-> "none", name |-> "", type |-> "", ext |-> <<0, 0, 0>>,
           dir |-> 0, pad |-> 0, seed |-> 0, fault |-> "none"]

\* The direction the program distributes its field in: the slowest one
\* that gives every rank at least one element (direction C when none does).
ProbDir(e) ==
    IF e[1] >= NRanks THEN 1
    ELSE IF e[2] >= NRanks THEN 2
    ELSE IF e[3] >= NRanks THEN 3 ELSE 1

Grown(e, d) == [e EXCEPT ![d] = @ + 1]

BadArgs(e) ==
    [bad : BadKinds \ {"none"}, name : Names, type : {"double"}, ext : {e},
     dir : {ProbDir(e)}, pad : {ZeroStride}, seed : {0}, fault : {"none"}]

\* Calls of the contract specification: the program's field with every
\* element type and buffer, a failing transfer, a wrong global extent in
\* one direction, and one invalid argument.
WriteArgs(e) ==
    [bad : {"none"}, name : Names, type : Types, ext : {e},
     dir : {ProbDir(e)}, pad : {ZeroStride}, seed : Seeds, fault : {"none"}]
    \cup
    [bad : {"none"}, name : Names, type : Types, ext : {e},
     dir : {ProbDir(e)}, pad : {ZeroStride}, seed : {0}, fault : {"transfer"}]
    \cup
    [bad : {"none"}, name : Names, type : {"double"},
     ext : {Grown(e, d) : d \in 1 .. 3},
     dir : {ProbDir(e)}, pad : {ZeroStride}, seed : {0}, fault : {"none"}]
    \cup BadArgs(e)

ReadArgs(e) ==
    [bad : {"none"}, name : Names, type : Types, ext : {e},
     dir : {ProbDir(e), Whole}, pad : {ZeroStride}, seed : {0},
     fault : {"none", "transfer"}]
    \cup
    [bad : {"none"}, name : Names, type : {"double"},
     ext : {Grown(e, d) : d \in 1 .. 3},
     dir : {ProbDir(e)}, pad : {ZeroStride}, seed : {0}, fault : {"none"}]
    \cup BadArgs(e)

\* Calls of the transfer specification: every split direction, strides
\* with and without padding, every buffer, scalar element types.
XferWriteArgs(e) ==
    [bad : {"none"}, name : Names, type : {"double", "float"}, ext : {e},
     dir : 1 .. 3, pad : Pads, seed : Seeds, fault : {"none"}]

XferReadArgs(e) ==
    [bad : {"none"}, name : Names, type : {"double", "float"}, ext : {e},
     dir : 0 .. 3, pad : Pads, seed : {0}, fault : {"none"}]

\* Calls of esio_field_size: valid ones and one NULL argument.
SizeBadKinds == {"none", "s_null", "name_null", "nc_null", "nb_null", "na_null"}
SizeArgs == {[NoArgs EXCEPT !.name = n, !.bad = b] : n \in Names, b \in SizeBadKinds}

NoWrite == [valid |-> FALSE, path |-> "", a |-> NoArgs, stored |-> "",
            reopened |-> FALSE]

Uniform(code) ==
    [r \in Ranks |-> IF code = ESIO_SUCCESS THEN Success ELSE ESIO_ERROR(code)]

Call(op, path, flag, a, pre, out, rbuf) ==
    [op |-> op, path |-> path, flag |-> flag, a |-> a, pre |-> pre,
     out |-> out, rbuf |-> rbuf]

NoPre == [s |-> [file_id |-> NoId, layout_tag |-> 0],
          disk |-> [p \in Paths |-> NoFile], heap |-> "live"]
Pre == [s |-> s, disk |-> disk, heap |-> heap]

NoCall == Call("none", "", FALSE, NoArgs, NoPre, Uniform(ESIO_SUCCESS), NoBufs)

\* Arguments of a call that takes no field arguments.
HandleArg(snull) == [NoArgs EXCEPT !.bad = IF snull THEN "s_null" ELSE "none"]

\* The field `name` of the container the handle hs has open on the disk
\* dsk (NoField when none is open).
Found(hs, dsk, name) ==
    IF hs.file_id = NoId THEN NoField ELSE dsk[hs.file_id.path].fields[name]

\* The error handler is process-wide and the caller may swap it between any
\* two calls, so every call runs under either handler h.  The default
\* handler aborts the process on the first error reported to it.
UnderHook(h, out) ==
    [r \in Ranks |->
        IF h = "abort" /\ out[r].raised # 0
        THEN [out[r] EXCEPT !.st = "abort"] ELSE out[r]]

\* What undefined behaviour comes to: the process is ended, or the call
\* returns, with an error code or with ESIO_SUCCESS.
WildOutcomes == {"crash", "failed", "returned"}
Resolved(out, w) ==
    [r \in Ranks |->
        IF out[r].st # "wild" THEN out[r]
        ELSE IF w = "crash" THEN [out[r] EXCEPT !.st = "crash"]
        ELSE IF w = "failed" THEN [out[r] EXCEPT !.st = "ret", !.ret = ESIO_EINVAL]
        ELSE [out[r] EXCEPT !.st = "ret"]]

\* The ways the outcomes out come about under the handler h.
Outcomes(h, out) ==
    IF \E r \in Ranks : UnderHook(h, out)[r].st = "wild"
    THEN {Resolved(UnderHook(h, out), w) : w \in WildOutcomes}
    ELSE {UnderHook(h, out)}

\* The calls a rank made under the handler h: the aborting handler ends
\* the process in the first ESIO_ERROR.
EventsUnder(h, e) ==
    [r \in Ranks |->
        IF h = "abort" /\ \E q \in 1 .. Len(e[r]) : e[r][q][1] = "ESIO_ERROR"
        THEN SubSeq(e[r], 1, CHOOSE q \in 1 .. Len(e[r]) :
                                /\ e[r][q][1] = "ESIO_ERROR"
                                /\ \A q2 \in 1 .. (q - 1) : e[r][q2][1] # "ESIO_ERROR")
        ELSE e[r]]

\* What becomes of the program once the ranks' outcomes are known: a failed
\* assert, the aborting handler or a crash ends it, a rank left in a
\* collective point blocks it.
RunAfter(out) ==
    IF \E r \in Ranks : out[r].st \in {"assert", "abort", "crash"} THEN "aborted"
    ELSE IF \E r \in Ranks : out[r].st = "hang" THEN "hung"
    ELSE "running"

AllSuccess(out) ==
    \A r \in Ranks : out[r].st = "ret" /\ out[r].ret = ESIO_SUCCESS
                     /\ out[r].raised = 0

Idle == run = "running" /\ last.op = "none"

\* The caller passes a handle that esio_init returned and esio_finalize has
\* not released, and a kept history has room for the call.
Usable == heap = "live" /\ (hist.on => Len(hist.calls) < MaxHist)

Noted(op, path, ok) ==
    IF hist.on THEN [hist EXCEPT !.calls = Append(@, <<op, path, ok>>)] ELSE hist

NoneMade == [n \in Names |-> <<>>]
NoHist(on) == [on |-> on, calls |-> <<>>, made |-> [p \in Paths |-> NoneMade]]

\* The restart files a directory may start with: every name is there or
\* not, and a file's contents are told apart by the name it started under.
\* The names carry the indices 0 .. MaxIndex in one digit, 0 and 1 in two
\* digits, and 0 before a suffix; "n" is the file the solver just wrote.
RestartNames ==
    {<<"c">> \o DecimalDigits(i) : i \in 0 .. MaxIndex}
        \cup {<<"c", "0">> \o DecimalDigits(i) : i \in 0 .. 1}
        \cup {<<"c", "0", "x">>, <<"n">>}
RestartTemplates ==
    {<<"c", "#">>, <<"c", "#", "#">>, <<"c", "#", "x">>, <<"c">>,
     <<"c", "#", "x", "#">>}

NoRotation ==
    [op |-> "none", src |-> <<>>, tmpl |-> <<>>, keep |-> 0, bad |-> "none",
     errval |-> 0, pre |-> NoDir, st |-> "ret", ret |-> ESIO_SUCCESS,
     raised |-> 0, moves |-> <<>>]

InitWith(tr) ==
    /\ s = [file_id |-> NoId, layout_tag |-> 0]
    /\ disk = [p \in Paths |-> NoFile]
    /\ run = "running"
    /\ prob \in Extents
    /\ last = NoCall
    /\ closed = FALSE
    /\ track = tr
    /\ lastw = NoWrite
    /\ heap = "live"
    /\ files = NoDir
    /\ rot = NoRotation
    /\ ev = NoBufs

Init == InitWith(FALSE) /\ hist = NoHist(FALSE)

file_create(file, overwrite, snull, h) ==
    /\ Idle
    /\ Usable
    /\ LET res == esio_file_create(s, disk, snull, file, overwrite)
           out == UnderHook(h, Uniform(res.ret))
       IN  /\ s' = res.s
           /\ disk' = res.disk
           /\ run' = RunAfter(out)
           /\ last' = Call("file_create", file, overwrite, HandleArg(snull),
                           Pre, out, NoBufs)
           /\ lastw' = IF res.ret = ESIO_SUCCESS /\ lastw.path = file
                       THEN NoWrite ELSE lastw
           /\ hist' = [Noted("file_create", file, res.ret = ESIO_SUCCESS)
                          EXCEPT !.made[file] = IF res.ret = ESIO_SUCCESS
                                                THEN NoneMade ELSE @]
    /\ closed' = FALSE
    /\ UNCHANGED <<prob, track, heap, files, rot, ev>>

file_open(file, readwrite, snull, h) ==
    /\ Idle
    /\ Usable
    /\ LET res == esio_file_open(s, disk, snull, file, readwrite)
           out == UnderHook(h, Uniform(res.ret))
       IN  /\ s' = res.s
           /\ disk' = res.disk
           /\ run' = RunAfter(out)
           /\ last' = Call("file_open", file, readwrite, HandleArg(snull),
                           Pre, out, NoBufs)
           /\ lastw' = IF res.ret = ESIO_SUCCESS /\ lastw.valid /\ lastw.path = file
                       THEN [lastw EXCEPT !.reopened = TRUE] ELSE lastw
           /\ hist' = Noted("file_open", file, res.ret = ESIO_SUCCESS)
    /\ closed' = FALSE
    /\ UNCHANGED <<prob, track, heap, files, rot, ev>>

file_close(snull, h) ==
    /\ Idle
    /\ Usable
    /\ LET res == esio_file_close(s, disk, snull)
           out == UnderHook(h, Uniform(res.ret))
       IN  /\ s' = res.s
           /\ disk' = res.disk
           /\ run' = RunAfter(out)
           /\ last' = Call("file_close", s.file_id.path, closed,
                           HandleArg(snull), Pre, out, NoBufs)
           /\ closed' = (res.ret = ESIO_SUCCESS)
           /\ hist' = Noted("file_close", s.file_id.path, res.ret = ESIO_SUCCESS)
    /\ UNCHANGED <<prob, track, lastw, heap, files, rot, ev>>

layout_set(layout_index, snull, h) ==
    /\ Idle
    /\ Usable
    /\ LET res == esio_layout_set(s, snull, layout_index)
           out == UnderHook(h, Uniform(res.ret))
       IN  /\ s' = res.s
           /\ run' = RunAfter(out)
           /\ last' = Call("layout_set", "", FALSE,
                           [HandleArg(snull) EXCEPT !.dir = layout_index],
                           Pre, out, NoBufs)
           /\ hist' = Noted("layout_set", "", res.ret = ESIO_SUCCESS)
    /\ closed' = FALSE
    /\ UNCHANGED <<disk, prob, track, lastw, heap, files, rot, ev>>

\* unlink(2) of a file no handle has open
unlink(file) ==
    /\ Idle
    /\ hist.on => Len(hist.calls) < MaxHist
    /\ disk[file].exists
    /\ s.file_id.path # file
    /\ disk' = [disk EXCEPT ![file] = NoFile]
    /\ last' = Call("unlink", file, FALSE, NoArgs, Pre,
                    Uniform(ESIO_SUCCESS), NoBufs)
    /\ lastw' = IF lastw.path = file THEN NoWrite ELSE lastw
    /\ hist' = [Noted("unlink", file, TRUE) EXCEPT !.made[file] = NoneMade]
    /\ closed' = FALSE
    /\ UNCHANGED <<s, run, prob, track, heap, files, rot, ev>>

\* A build with NDEBUG skips the kernel's asserts; both builds are followed
\* where an assert is reached.
Builds(res) ==
    IF \E r \in Ranks : res.out[r].st = "assert" THEN BOOLEAN ELSE {FALSE}

field_write(a, h) ==
    /\ Idle
    /\ Usable
    /\ \E dbg \in {esio_field_write_internal(s, disk, a, FALSE)} :
       \E ndebug \in Builds(dbg) :
       \E res \in {IF ndebug THEN esio_field_write_internal(s, disk, a, TRUE)
                               ELSE dbg} :
       \E out \in Outcomes(h, res.out) :
           /\ disk' = res.disk
           /\ ev' = EventsUnder(h, res.ev)
           /\ run' = RunAfter(out)
           /\ last' = Call("field_write", s.file_id.path, FALSE, a,
                           Pre, out, res.rbuf)
           /\ lastw' = IF ~track THEN lastw
                       ELSE IF AllSuccess(out)
                       THEN [valid |-> TRUE, path |-> s.file_id.path, a |-> a,
                             stored |-> res.disk[s.file_id.path].fields[a.name].type,
                             reopened |-> FALSE]
                       ELSE IF res.disk # disk THEN NoWrite ELSE lastw
           /\ hist' = IF /\ ~Found(s, disk, a.name).dset
                         /\ Found(s, res.disk, a.name).dset
                      THEN [hist EXCEPT !.made[s.file_id.path][a.name] =
                                           ArgGlobal(a)]
                      ELSE hist
    /\ closed' = FALSE
    /\ UNCHANGED <<s, prob, track, heap, files, rot>>

field_read(a, h) ==
    /\ Idle
    /\ Usable
    /\ \E dbg \in {esio_field_read_internal(s, disk, a, FALSE)} :
       \E ndebug \in Builds(dbg) :
       \E res \in {IF ndebug THEN esio_field_read_internal(s, disk, a, TRUE)
                               ELSE dbg} :
       \E out \in Outcomes(h, res.out) :
           /\ disk' = res.disk
           /\ ev' = EventsUnder(h, res.ev)
           /\ run' = RunAfter(out)
           /\ last' = Call("field_read", s.file_id.path, FALSE, a,
                           Pre, out, res.rbuf)
    /\ closed' = FALSE
    /\ UNCHANGED <<s, prob, track, lastw, heap, hist, files, rot>>

field_size(a, h) ==
    /\ Idle
    /\ Usable
    /\ \E res \in {esio_field_size(s, disk, a)} :
       \E out \in {UnderHook(h, [r \in Ranks |->
                                    Out(res.ret, res.raised, "ret")])} :
           /\ run' = RunAfter(out)
           /\ last' = Call("field_size", s.file_id.path, FALSE, a, Pre, out,
                           [r \in Ranks |-> res.size])
           /\ ev' = EventsUnder(h, [r \in Ranks |-> res.ev])
    /\ closed' = FALSE
    /\ UNCHANGED <<s, disk, prob, track, lastw, heap, hist, files, rot>>

\* What a call on a handle that esio_finalize has released can do: the
\* handle's fields are read from released memory and the handle is released
\* a second time, so the process is ended or the call returns.
FreedOutcomes == {"crash", "return"}
Crashed == [r \in Ranks |-> Out(ESIO_SUCCESS, 0, "abort")]

finalize(snull, h) ==
    /\ Idle
    /\ hist.on => Len(hist.calls) < MaxHist
    /\ heap \in {"live", "freed"}
    /\ \E ub \in IF ~snull /\ heap = "freed" THEN FreedOutcomes ELSE {"none"} :
       \E res \in {esio_finalize(s, disk, snull)} :
       \E out \in {IF ub = "crash" THEN Crashed
                   ELSE UnderHook(h, Uniform(res.ret))} :
           /\ s' = IF ub = "none" THEN res.s ELSE s
           /\ disk' = IF ub = "none" THEN res.disk ELSE disk
           /\ heap' = IF ub = "return" THEN "corrupt"
                      ELSE IF ub = "none" /\ res.freed THEN "freed" ELSE heap
           /\ run' = RunAfter(out)
           /\ last' = Call("finalize", s.file_id.path, FALSE, HandleArg(snull),
                           Pre, out, NoBufs)
           /\ hist' = Noted("finalize", "", AllSuccess(out))
    /\ closed' = FALSE
    /\ UNCHANGED <<prob, track, lastw, files, rot, ev>>

\* esio_init once the previous handle has been finalized.  The out record's
\* code 0 stands for the NULL that a failed esio_init returns.
init(comm_null, h) ==
    /\ Idle
    /\ hist.on => Len(hist.calls) < MaxHist
    /\ heap = "freed"
    /\ \E res \in {esio_init(comm_null)} :
       \E out \in {UnderHook(h, [r \in Ranks |->
                                    Out(ESIO_SUCCESS, res.raised, "ret")])} :
           /\ s' = IF res.ok THEN res.s ELSE s
           /\ heap' = IF res.ok THEN "live" ELSE heap
           /\ run' = RunAfter(out)
           /\ last' = Call("init", "", comm_null, NoArgs, Pre, out, NoBufs)
           /\ hist' = Noted("init", "", res.ok)
    /\ closed' = FALSE
    /\ UNCHANGED <<disk, prob, track, lastw, files, rot, ev>>

\* restart_rename is called by one process on its own; the handler h ends
\* the process when the call reports an error to it.
restart(src, tmpl, keep, bad, h) ==
    /\ Idle
    /\ rot.op = "none"
    /\ \E res \in {restart_rename(files, src, tmpl, keep, bad)} :
          /\ files' = res.files
          /\ rot' = [op |-> "restart_rename", src |-> src, tmpl |-> tmpl,
                     keep |-> keep, bad |-> bad, errval |-> 0, pre |-> files,
                     st |-> IF h = "abort" /\ res.raised # 0
                            THEN "abort" ELSE "ret",
                     ret |-> res.ret, raised |-> res.raised,
                     moves |-> res.moves]
          /\ run' = IF h = "abort" /\ res.raised # 0 THEN "aborted" ELSE run
    /\ UNCHANGED <<s, disk, prob, last, closed, track, lastw, heap, hist, ev>>

\* restart_nextindex reads its two strings and returns a number; it reports
\* nothing to the error handler.
nextindex(tmpl, name, errval) ==
    /\ Idle
    /\ rot.op = "none"
    /\ rot' = [NoRotation EXCEPT !.op = "restart_nextindex", !.tmpl = tmpl,
                                 !.src = name, !.errval = errval,
                                 !.ret = restart_nextindex(tmpl, name, errval)]
    /\ UNCHANGED <<s, disk, run, prob, last, closed, track, lastw, heap, hist,
                   files, ev>>

\* The caller has looked at the outcome and goes on to its next call.
resume ==
    /\ run = "running"
    /\ last.op # "none"
    /\ last' = NoCall
    /\ ev' = NoBufs
    /\ UNCHANGED <<s, disk, run, prob, closed, track, lastw, heap, hist, files, rot>>

Next ==
    \/ \E p \in Paths, ow \in BOOLEAN, sn \in BOOLEAN, h \in Hooks :
          file_create(p, ow, sn, h)
    \/ \E p \in Paths, rw \in BOOLEAN, sn \in BOOLEAN, h \in Hooks :
          file_open(p, rw, sn, h)
    \/ \E sn \in BOOLEAN, h \in Hooks : file_close(sn, h)
    \/ \E t \in (0 - 1) .. esio_nlayout, sn \in BOOLEAN, h \in Hooks :
          layout_set(t, sn, h)
    \/ \E p \in Paths : unlink(p)
    \/ \E a \in WriteArgs(prob), h \in Hooks : field_write(a, h)
    \/ \E a \in ReadArgs(prob), h \in Hooks : field_read(a, h)
    \/ resume

Spec == Init /\ [][Next]_vars

\* The transfer specification: one writable or read-only container, the
\* baseline layout, the passthrough handler, and the transfer calls above.
InitXfer == InitWith(TRUE) /\ hist = NoHist(FALSE)

NextXfer ==
    \/ \E p \in Paths : file_create(p, TRUE, FALSE, "off")
    \/ \E p \in Paths, rw \in BOOLEAN : file_open(p, rw, FALSE, "off")
    \/ file_close(FALSE, "off")
    \/ \E a \in XferWriteArgs(prob) : field_write(a, "off")
    \/ \E a \in XferReadArgs(prob) : field_read(a, "off")
    \/ \E a \in SizeArgs : field_size(a, "off")
    \/ resume

SpecXfer == InitXfer /\ [][NextXfer]_vars

\* The lifecycle specification: one handle taken through create, open,
\* close, layout_set, finalize and init, with the history of its calls.
\* The files may or may not exist when the program starts.
InitLife ==
    /\ s = [file_id |-> NoId, layout_tag |-> 0]
    /\ disk \in [Paths -> {NoFile, EmptyFile}]
    /\ run = "running"
    /\ prob = <<1, 1, 1>>
    /\ last = NoCall
    /\ closed = FALSE
    /\ track = FALSE
    /\ lastw = NoWrite
    /\ heap = "live"
    /\ hist = NoHist(TRUE)
    /\ files = NoDir
    /\ rot = NoRotation
    /\ ev = NoBufs

NextLife ==
    \/ \E p \in Paths, ow \in BOOLEAN, h \in Hooks : file_create(p, ow, FALSE, h)
    \/ \E p \in Paths, rw \in BOOLEAN, h \in Hooks : file_open(p, rw, FALSE, h)
    \/ \E h \in Hooks : file_close(FALSE, h)
    \/ \E t \in (0 - 1) .. esio_nlayout, h \in Hooks : layout_set(t, FALSE, h)
    \/ \E p \in Paths : unlink(p)
    \/ \E sn \in BOOLEAN, h \in Hooks : finalize(sn, h)
    \/ \E cn \in BOOLEAN, h \in Hooks : init(cn, h)
    \/ resume

SpecLife == InitLife /\ [][NextLife]_vars

\* The restart specification: a directory of restart files and one rotation
\* of them by restart_rename, whose source is a file of the directory or the
\* name "x" that no file has.  Besides the small values of keep_howmany, a
\* program keeps eleven or a thousand files.
InitRestart ==
    /\ s = [file_id |-> NoId, layout_tag |-> 0]
    /\ disk = [p \in Paths |-> NoFile]
    /\ run = "running"
    /\ prob = <<1, 1, 1>>
    /\ last = NoCall
    /\ closed = FALSE
    /\ track = FALSE
    /\ lastw = NoWrite
    /\ heap = "live"
    /\ hist = NoHist(FALSE)
    /\ files \in {[name \in S |-> name] : S \in SUBSET RestartNames}
    /\ rot = NoRotation
    /\ ev = NoBufs

NextRestart ==
    \/ \E src \in DOMAIN files \cup {<<"x">>}, tmpl \in RestartTemplates,
          keep \in 0 .. MaxKeep, bad \in {"none", "src_null", "tmpl_null"},
          h \in Hooks :
           restart(src, tmpl, keep, bad, h)
    \/ \E src \in DOMAIN files, tmpl \in RestartTemplates, keep \in {11, 1000} :
           restart(src, tmpl, keep, "none", "off")

SpecRestart == InitRestart /\ [][NextRestart]_vars

\* The index specification: one call of restart_nextindex.  The templates
\* are well formed (one '#' run, with and without a suffix, the suffix
\* starting with a letter or a digit) or malformed (no '#', two runs).  The
\* names are all the strings of up to MaxName characters over a letter of
\* the templates, another letter, '#', two digits and a sign, and names
\* whose digits are INT_MAX - 1, INT_MAX, INT_MAX + 1 and ten times INT_MAX.
InitIndex ==
    /\ s = [file_id |-> NoId, layout_tag |-> 0]
    /\ disk = [p \in Paths |-> NoFile]
    /\ run = "running"
    /\ prob = <<1, 1, 1>>
    /\ last = NoCall
    /\ closed = FALSE
    /\ track = FALSE
    /\ lastw = NoWrite
    /\ heap = "live"
    /\ hist = NoHist(FALSE)
    /\ files = NoDir
    /\ rot = NoRotation
    /\ ev = NoBufs

NextIndex ==
    \E tmpl \in {<<"c", "#">>, <<"c", "#", "#">>, <<"c", "#", "x">>,
                 <<"c", "#", "1">>, <<"#">>, <<"c">>, <<"c", "#", "x", "#">>},
       name \in UNION {[1 .. n -> {"c", "x", "#", "0", "1", "-"}] :
                           n \in 0 .. MaxName}
                 \cup {<<"c">> \o big \o suffix :
                          big \in {DecimalDigits(INT_MAX - 1),
                                   DecimalDigits(INT_MAX),
                                   SubSeq(DecimalDigits(INT_MAX), 1, 9) \o <<"8">>,
                                   DecimalDigits(INT_MAX) \o <<"0">>},
                          suffix \in {<<>>, <<"x">>, <<"1">>}},
       errval \in {0 - 1, 0} :
        nextindex(tmpl, name, errval)

SpecIndex == InitIndex /\ [][NextIndex]_vars

\* The fault specification: a container that an earlier program left with
\* one field or none, opened for writing or read-only, and field calls in
\* which any one step of the container driver may fail.  The field on
\* disk is a field this library wrote, or carries a layout tag below or
\* above the registered layouts, a metadata attribute one integer too
\* long, or an opaque element type.
InitFault ==
    /\ s = [file_id |-> NoId, layout_tag |-> 0]
    /\ prob = <<NRanks, 1, 1>>
    /\ \E tag \in {0 - 1, 0, esio_nlayout}, extra \in {<<>>, <<0>>},
          type \in {"double", "opaque"}, present \in BOOLEAN :
          disk = [p \in Paths |->
                    [exists |-> TRUE,
                     fields |-> [n \in Names |->
                        IF ~present THEN NoField
                        ELSE [esio_field_metadata_write(
                                 [dset |-> TRUE, dims |-> prob, type |-> type,
                                  data |-> [m \in 1 .. Prod3(prob) |-> 0],
                                  meta |-> <<>>],
                                 tag, prob[1], prob[2], prob[3], "double")
                                EXCEPT !.meta = @ \o extra]]]]
    /\ run = "running"
    /\ last = NoCall
    /\ closed = FALSE
    /\ track = FALSE
    /\ lastw = NoWrite
    /\ heap = "live"
    /\ hist = NoHist(FALSE)
    /\ files = NoDir
    /\ rot = NoRotation
    /\ ev = NoBufs

\* Calls of the fault specification: the program's field with contiguous
\* and padded strides, and the step of the driver that fails, if any: the
\* transfer property list, a memory hyperslab, the file hyperslab, the
\* transfer, the write of the metadata attribute.
FaultArgs(e) ==
    [bad : {"none"}, name : Names, type : {"double"}, ext : {e},
     dir : {ProbDir(e)}, pad : {ZeroStride, MaxPad}, seed : {0},
     fault : {"none", "dxpl", "memsel", "filesel", "transfer", "metadata"}]

NextFault ==
    \/ \E p \in Paths, rw \in BOOLEAN : file_open(p, rw, FALSE, "off")
    \/ file_close(FALSE, "off")
    \/ \E a \in FaultArgs(prob), h \in Hooks : field_write(a, h)
    \/ \E a \in FaultArgs(prob), h \in Hooks : field_read(a, h)
    \/ \E a \in SizeArgs, h \in Hooks : field_size(a, h)
    \/ resume

SpecFault == InitFault /\ [][NextFault]_vars

\* ------------------------------------------------------------ properties
\* Buffer offsets of rank r's local sub-block under the arguments a.
LocalOffsets(a, r) ==
    layout0_memspace(ArgLocal(a, r),
                     ContiguousStride(ArgStride(a, r), ArgLocal(a, r),
                                      esio_type_ncomponents(a.type)))

\* The part of the global array rank r holds in buf under the arguments a,
\* as pairs <<global linear index, value>>.
RankView(a, r, buf) ==
    LET st  == ArgStart(a, r)
        sz  == ArgLocal(a, r)
        str == ContiguousStride(ArgStride(a, r), sz, esio_type_ncomponents(a.type))
    IN  { << ((st[1] + kji[1]) * a.ext[2] + st[2] + kji[2]) * a.ext[3]
                + st[3] + kji[3],
             buf[kji[1] * str[1] + kji[2] * str[2] + kji[3] * str[3] + 1] >> :
          kji \in (0 .. sz[1] - 1) \X (0 .. sz[2] - 1) \X (0 .. sz[3] - 1) }

GlobalArray(a, bufs) == UNION { RankView(a, r, bufs[r]) : r \in Ranks }

\* A read that succeeded on every rank, of the field whose last write is
\* lastw, after the container was closed and opened again, with the
\* parameters of that write.
RoundTripCase ==
    /\ last.op = "field_read"
    /\ AllSuccess(last.out)
    /\ lastw.valid
    /\ lastw.reopened
    /\ last.path = lastw.path
    /\ [last.a EXCEPT !.seed = lastw.a.seed] = lastw.a

\* C1 as stated: write, close, open, read with the same parameters gives
\* every rank back its buffer on every position of its local sub-block,
\* whatever the element type the field was created with.
C1_RoundTripAnyStorage ==
    RoundTripCase =>
        \A r \in Ranks : \A o \in LocalOffsets(last.a, r) :
            last.rbuf[r][o + 1] = WriteBuf(lastw.a, r)[o + 1]

\* C1: write, close, open, read with the same parameters gives every rank
\* back, on every position of its local sub-block, its buffer converted to
\* the field's stored element type and back; the buffer itself when the
\* stored element type is the caller's.
C1_RoundTrip ==
    RoundTripCase =>
        \A r \in Ranks : \A o \in LocalOffsets(last.a, r) :
            /\ last.rbuf[r][o + 1]
                 = H5Tconvert(lastw.stored, last.a.type,
                              H5Tconvert(lastw.a.type, lastw.stored,
                                         WriteBuf(lastw.a, r)[o + 1]))
            /\ lastw.stored = lastw.a.type
                 => last.rbuf[r][o + 1] = WriteBuf(lastw.a, r)[o + 1]

C1_Witness ==
    /\ RoundTripCase
    /\ lastw.stored = lastw.a.type
    /\ last.a.pad # ZeroStride
    /\ \E r \in Ranks : \E o1, o2 \in LocalOffsets(last.a, r) :
          /\ last.rbuf[r][o1 + 1] # last.rbuf[r][o2 + 1]
          /\ last.rbuf[r][o1 + 1] = WriteBuf(lastw.a, r)[o1 + 1]
          /\ WriteBuf(lastw.a, r)[o1 + 1] % 2 = 1

\* C2: a read under a decomposition D2 of a field last written under D1
\* yields the same global array as the read under D1 does, and the global
\* array written when no conversion is involved.
C2_DecompositionInvariance ==
    (/\ last.op = "field_read"
     /\ AllSuccess(last.out)
     /\ lastw.valid
     /\ last.path = lastw.path)
    => LET d1 == [last.a EXCEPT !.dir = lastw.a.dir, !.pad = lastw.a.pad] IN
       \A ref \in {esio_field_read_internal(s, disk, d1, FALSE)} :
           /\ AllSuccess(ref.out)
           /\ GlobalArray(last.a, last.rbuf) = GlobalArray(d1, ref.rbuf)
           /\ (lastw.stored = lastw.a.type /\ last.a.type = lastw.a.type)
                => GlobalArray(last.a, last.rbuf)
                     = GlobalArray(lastw.a, [r \in Ranks |-> WriteBuf(lastw.a, r)])

C2_Witness ==
    /\ last.op = "field_read"
    /\ AllSuccess(last.out)
    /\ lastw.valid
    /\ last.path = lastw.path
    /\ last.a.dir \in 1 .. 3
    /\ last.a.dir # lastw.a.dir
    /\ \A r \in Ranks : Prod3(ArgLocal(last.a, r)) < Prod3(last.a.ext)
    /\ Cardinality({ p[2] : p \in GlobalArray(last.a, last.rbuf) }) > 1
    /\ GlobalArray(last.a, last.rbuf)
         = GlobalArray(lastw.a, [r \in Ranks |-> WriteBuf(lastw.a, r)])

\* The named field before and after the call `last`, the metadata the
\* call found, and whether rank r's arguments passed the entry checks.
FoundBefore == Found(last.pre.s, last.pre.disk, last.a.name)
FoundAfter  == Found(s, disk, last.a.name)
MetaBefore  == esio_field_metadata_read(FoundBefore)
Passed(r)   == field_args_check(last.pre.s, last.a, r) = 0

\* Rank r reported `code` to the error handler and, unless the handler
\* aborted, returned it.
Returned(r, code) ==
    /\ last.out[r].raised = code
    /\ last.out[r].st \in {"ret", "abort"}
    /\ last.out[r].st = "ret" => last.out[r].ret = code

\* The caller's sizes or component count differ from the stored ones.
Mismatch ==
    \/ ArgGlobal(last.a)[1] # MetaBefore.nc
    \/ ArgGlobal(last.a)[2] # MetaBefore.nb
    \/ ArgGlobal(last.a)[3] # MetaBefore.na
    \/ esio_type_ncomponents(last.a.type) # MetaBefore.ncomponents

C4_Invalid(r) ==
    \/ last.a.bad \in {"s_null", "name_null", "field_null"}
    \/ last.pre.s.file_id = NoId
    \/ \E d \in 1 .. 3 : \/ ArgGlobal(last.a)[d] < 0
                         \/ ArgStart(last.a, r)[d] < 0
                         \/ ArgLocal(last.a, r)[d] < 1

C4_WriteValidation ==
    last.op = "field_write" =>
        /\ \A r \in Ranks : C4_Invalid(r) => Returned(r, ESIO_EINVAL)
        /\ (\A r \in Ranks : C4_Invalid(r)) => disk = last.pre.disk

C4_Witness ==
    /\ last.op = "field_write"
    /\ last.a.bad = "asz_zero"
    /\ last.pre.s.file_id.rw
    /\ FoundBefore.dset
    /\ \A r \in Ranks : last.out[r].st = "ret" /\ last.out[r].ret = ESIO_EINVAL
    /\ disk = last.pre.disk

C6_MismatchRejected ==
    (/\ last.op = "field_write"
     /\ MetaBefore.err = 0
     /\ Mismatch)
    => /\ \A r \in Ranks : Passed(r) => Returned(r, ESIO_EINVAL)
       /\ disk = last.pre.disk

C6_Witness ==
    /\ last.op = "field_write"
    /\ MetaBefore.err = 0
    /\ ArgGlobal(last.a)[3] = MetaBefore.na + 1
    /\ \A r \in Ranks : Passed(r) /\ last.out[r].st = "ret"
                        /\ last.out[r].ret = ESIO_EINVAL
    /\ \E n \in 1 .. Len(FoundAfter.data) : FoundAfter.data[n] > 0

C8_ReadStrict ==
    (/\ last.op = "field_read"
     /\ MetaBefore.err < 0 \/ Mismatch)
    => /\ \A r \in Ranks : Passed(r) =>
             /\ Returned(r, IF MetaBefore.err < 0 THEN ESIO_EFAILED
                            ELSE ESIO_EINVAL)
             /\ \A o \in 1 .. Len(last.rbuf[r]) : last.rbuf[r][o] = Untouched
       /\ disk = last.pre.disk

C8_Witness ==
    /\ last.op = "field_read"
    /\ last.pre.s.file_id # NoId
    /\ MetaBefore.err = 0
    /\ esio_type_ncomponents(last.a.type) # MetaBefore.ncomponents
    /\ \A r \in Ranks : Passed(r) /\ last.out[r].st = "ret"
                        /\ last.out[r].ret = ESIO_EINVAL

\* C9: file_create and file_open on a handle that has a container open
\* report and return EINVAL and leave the handle's open-container
\* identifier, and the file system, unchanged.
C9_OneContainerPerHandle ==
    (/\ last.op \in {"file_create", "file_open"}
     /\ last.pre.s.file_id # NoId)
    => /\ \A r \in Ranks : Returned(r, ESIO_EINVAL)
       /\ s.file_id = last.pre.s.file_id
       /\ disk = last.pre.disk

C9_Witness ==
    /\ last.op = "file_create"
    /\ last.flag
    /\ last.a.bad = "none"
    /\ last.pre.s.file_id = FileId(last.path, TRUE)
    /\ \A r \in Ranks : last.out[r].st = "ret" /\ last.out[r].ret = ESIO_EINVAL
    /\ s.file_id = last.pre.s.file_id
    /\ disk[last.path].fields["u"].dset

\* C10: a file_close on a handle (not null) whose previous call was a
\* file_close that succeeded returns 0 on every rank and changes nothing.
C10_DoubleCloseSucceeds ==
    (/\ last.op = "file_close"
     /\ last.flag
     /\ last.a.bad = "none")
    => /\ AllSuccess(last.out)
       /\ s = last.pre.s
       /\ disk = last.pre.disk


\* ------------------------------------------------- lifecycle properties
\* The n-th call from the end of the kept history (1 is the latest).
Earlier(n) == hist.calls[Len(hist.calls) + 1 - n]

\* The latest file_create was refused on `last.path`, which was then
\* removed, and the call `last` is a file_create of that path again.
RetryAfterUnlink ==
    /\ last.op = "file_create"
    /\ Len(hist.calls) >= 3
    /\ Earlier(3) = <<"file_create", last.path, FALSE>>
    /\ Earlier(2) = <<"unlink", last.path, TRUE>>

\* C11: on a handle with no open container, file_create without overwrite
\* of a path that exists reports and returns ESIO_EFAILED on every rank and
\* leaves the handle and the file system as they were; every other
\* file_create (the path is absent, or overwrite is set) succeeds and
\* leaves the container open, in particular the one repeated after the
\* refused path was removed.
C11_OverwriteRefusal ==
    /\ (/\ last.op = "file_create"
        /\ last.a.bad = "none"
        /\ last.pre.s.file_id = NoId)
       => IF ~last.flag /\ last.pre.disk[last.path].exists
          THEN /\ \A r \in Ranks : Returned(r, ESIO_EFAILED)
               /\ s = last.pre.s
               /\ disk = last.pre.disk
          ELSE /\ AllSuccess(last.out)
               /\ s.file_id = FileId(last.path, TRUE)
               /\ disk[last.path].exists
    /\ RetryAfterUnlink => AllSuccess(last.out)

C11_Witness ==
    /\ RetryAfterUnlink
    /\ ~last.flag
    /\ AllSuccess(last.out)
    /\ s.file_id = FileId(last.path, TRUE)


\* The calls before `last` were complete cycles, each a file_create or
\* file_open that succeeded followed by a file_close that succeeded.
CyclesBefore ==
    /\ last.op \in {"file_create", "file_open", "file_close"}
    /\ \A i \in 1 .. (Len(hist.calls) - 1) :
          /\ hist.calls[i][3]
          /\ hist.calls[i][1] \in (IF i % 2 = 1 THEN {"file_create", "file_open"}
                                   ELSE {"file_close"})

\* C12: when all calls on the handle so far were successful cycles of
\* (file_create or file_open) then file_close, the next file_create (with
\* overwrite, or of an absent path) or file_open (of a path that exists,
\* read-only or read-write) succeeds and leaves its container open, and
\* the file_close that follows it succeeds and leaves the handle with no
\* open container and otherwise as it was.
C12_HandleReusable ==
    CyclesBefore =>
        /\ (/\ Len(hist.calls) % 2 = 1
            /\ last.op = "file_create"
            /\ last.flag \/ ~last.pre.disk[last.path].exists)
           => AllSuccess(last.out) /\ s.file_id = FileId(last.path, TRUE)
        /\ (/\ Len(hist.calls) % 2 = 1
            /\ last.op = "file_open"
            /\ last.pre.disk[last.path].exists)
           => AllSuccess(last.out) /\ s.file_id = FileId(last.path, last.flag)
        /\ (Len(hist.calls) % 2 = 0 /\ last.op = "file_close")
           => /\ AllSuccess(last.out)
              /\ s = [last.pre.s EXCEPT !.file_id = NoId]

C12_Witness ==
    /\ CyclesBefore
    /\ Len(hist.calls) = 4
    /\ last.op = "file_close"
    /\ hist.calls[1][1] = "file_create"
    /\ hist.calls[3][1] = "file_open"
    /\ AllSuccess(last.out)
    /\ s.file_id = NoId


\* C13: esio_finalize of a live handle, whether it never had a container
\* open, has one open or has closed it, returns success on every rank
\* without reporting an error, releases the handle, and leaves no
\* container open through it; the files are as they were.
C13_FinalizeAnyState ==
    (/\ last.op = "finalize"
     /\ last.a.bad = "none"
     /\ last.pre.heap = "live")
    => /\ AllSuccess(last.out)
       /\ heap = "freed"
       /\ s.file_id = NoId
       /\ disk = last.pre.disk

C13_Witness ==
    /\ last.op = "finalize"
    /\ last.a.bad = "none"
    /\ last.pre.heap = "live"
    /\ last.pre.s.file_id # NoId
    /\ AllSuccess(last.out)
    /\ s.file_id = NoId
    /\ \E i \in 1 .. Len(hist.calls) : hist.calls[i][1] = "file_close"

\* C14 as stated: esio_finalize of a handle that is NULL or was finalized
\* before returns success on every rank and has no effect: nothing is
\* released or closed again.
C14_FinalizeIdempotent ==
    (/\ last.op = "finalize"
     /\ last.a.bad = "s_null" \/ last.pre.heap = "freed")
    => /\ AllSuccess(last.out)
       /\ heap = last.pre.heap
       /\ s = last.pre.s
       /\ disk = last.pre.disk


C16_FieldSize ==
    (last.op = "field_size" /\ last.a.bad = "none")
    => IF last.pre.s.file_id = NoId
       THEN \A r \in Ranks :
               Returned(r, ESIO_EINVAL) /\ Untouched \in {last.rbuf[r][d] : d \in 1 .. 3}
       ELSE IF hist.made[last.path][last.a.name] = <<>>
       THEN \A r \in Ranks :
               Returned(r, ESIO_EFAILED) /\ Untouched \in {last.rbuf[r][d] : d \in 1 .. 3}
       ELSE /\ AllSuccess(last.out)
            /\ \A r \in Ranks : last.rbuf[r] = hist.made[last.path][last.a.name]

\* A size query of a field that was created by a write of one element type,
\* overwritten with another, closed and opened again, whose extents differ
\* from one direction to another.
C16_Witness ==
    /\ last.op = "field_size"
    /\ AllSuccess(last.out)
    /\ lastw.valid
    /\ lastw.path = last.path
    /\ lastw.reopened
    /\ lastw.stored # lastw.a.type
    /\ last.rbuf[0] = prob
    /\ prob[1] # prob[3]


\* A field write or read, on an open container, whose arguments are valid
\* except that some rank's local count is zero in some direction.
ZeroCountCase ==
    /\ last.op \in {"field_write", "field_read"}
    /\ last.a.bad = "none"
    /\ last.pre.s.file_id # NoId
    /\ \E r \in Ranks : \E d \in 1 .. 3 : ArgLocal(last.a, r)[d] = 0
    /\ \E r \in Ranks : \A d \in 1 .. 3 : ArgLocal(last.a, r)[d] >= 1

\* C17 as stated: a rank whose local count is zero in some direction takes
\* part in the collective transfer and reports no error, and no other rank
\* is left waiting in the collective call.
C17_ZeroCountParticipates ==
    ZeroCountCase =>
        \A r \in Ranks :
            /\ last.out[r].st # "hang"
            /\ (\E d \in 1 .. 3 : ArgLocal(last.a, r)[d] = 0)
                  => last.out[r].raised # ESIO_EINVAL


\* The same call with the tightly packed strides passed explicitly:
\* astride = ncomponents, bstride = alocal * astride,
\* cstride = blocal * bstride.
PackedCall == [last.a EXCEPT !.pad = 0]

AtIndex(d, i) ==
    {name \in DOMAIN d : restart_nextindex(rot.tmpl, name, 0 - 1) = i + 1}

\* A rotation that returned success, its source not matching the template
\* (as the documentation asks).
Rotated ==
    /\ rot.op = "restart_rename"
    /\ rot.st = "ret"
    /\ rot.ret = ESIO_SUCCESS
    /\ restart_nextindex(rot.tmpl, rot.src, 0) = 0

\* C20: after a successful restart_rename(src, tmpl, K) the former src is
\* gone from its old path and is found at index 0, and at every index i of
\* 1 .. K-1 at which a file exists one is found that was at index i-1
\* before the call.
C20_RestartMonotonicity ==
    Rotated =>
        /\ rot.src \notin DOMAIN files
        /\ \E name \in AtIndex(files, 0) : files[name] = rot.pre[rot.src]
        /\ \A i \in 1 .. (rot.keep - 1) :
              AtIndex(files, i) # {}
                => \E name \in AtIndex(files, i), old \in AtIndex(rot.pre, i - 1) :
                      files[name] = rot.pre[old]

\* A call of restart_rename with both pointers given and a source that does
\* not match the template (as the documentation asks).
RenameCalled ==
    /\ rot.op = "restart_rename"
    /\ rot.bad = "none"
    /\ restart_nextindex(rot.tmpl, rot.src, 0) = 0

HashFirst(t) == CHOOSE q \in 1 .. Len(t) : t[q] = "#" /\ \A q2 \in 1 .. (q - 1) : t[q2] # "#"
HashCount(t) == Cardinality({q \in 1 .. Len(t) : t[q] = "#"})
Prefix(t) == SubSeq(t, 1, HashFirst(t) - 1)
Suffix(t) == SubSeq(t, HashFirst(t) + HashCount(t), Len(t))

\* The decimal digits of v preceded by zeros up to the width.
ZeroPadded(width, v) ==
    [q \in 1 .. (width - Len(DecimalDigits(v))) |-> "0"] \o DecimalDigits(v)

\* The index the k-th rename of the rotation `rot` gives its file: one more
\* than the index of the entry, 0 for the source.
MovedTo(k) ==
    IF k = Len(rot.moves) THEN 0
    ELSE restart_nextindex(rot.tmpl, rot.moves[k][1], 0 - 1)

\* C22 as stated: every destination name of a successful restart_rename is
\* the prefix, the index zero-padded to the field width, and the suffix,
\* and matches the template again with that index; with c00 and c01
\* present, src = n, tmpl = "c##" and keep = 3 the files after the call are
\* c00 = n, c01 = old c00, c02 = old c01.
C22_ZeroPaddedNames ==
    Rotated =>
        /\ \A k \in 1 .. Len(rot.moves) :
              /\ rot.moves[k][2]
                   = Prefix(rot.tmpl)
                       \o ZeroPadded(WidenDigits(HashCount(rot.tmpl), rot.keep),
                                     MovedTo(k))
                       \o Suffix(rot.tmpl)
              /\ restart_nextindex(rot.tmpl, rot.moves[k][2], 0 - 1)
                   = MovedTo(k) + 1
        /\ (/\ rot.tmpl = <<"c", "#", "#">>
            /\ rot.keep = 3
            /\ rot.src = <<"n">>
            /\ DOMAIN rot.pre = {<<"c", "0", "0">>, <<"c", "0", "1">>, <<"n">>})
           => /\ DOMAIN files
                   = {<<"c", "0", "0">>, <<"c", "0", "1">>, <<"c", "0", "2">>}
              /\ files[<<"c", "0", "0">>] = <<"n">>
              /\ files[<<"c", "0", "1">>] = <<"c", "0", "0">>
              /\ files[<<"c", "0", "2">>] = <<"c", "0", "1">>

\* The width of the index in the name the rotation `rot` gave its source.
IndexWidth ==
    Len(rot.moves[Len(rot.moves)][2]) - Len(Prefix(rot.tmpl)) - Len(Suffix(rot.tmpl))

\* C23 as stated: the index width of a successful restart_rename is the
\* length of the '#' run, or the number of digits of keep - 1 when that is
\* more, so that every index of 0 .. keep-1 fits in it; with tmpl = "c#"
\* and keep = 1000 the width is 4 and the source becomes c0000.
C23_WidthFitsKeep ==
    Rotated =>
        /\ IndexWidth >= HashCount(rot.tmpl)
        /\ IndexWidth >= Len(DecimalDigits(rot.keep - 1))
        /\ \/ IndexWidth = HashCount(rot.tmpl)
           \/ IndexWidth = Len(DecimalDigits(rot.keep - 1))
        /\ (rot.tmpl = <<"c", "#">> /\ rot.keep = 1000)
              => /\ IndexWidth = 4
                 /\ rot.moves[Len(rot.moves)][2] = <<"c", "0", "0", "0", "0">>

\* A template without '#' or with '#' characters that are not adjacent.
Malformed(t) ==
    \/ HashCount(t) = 0
    \/ \E q \in HashFirst(t) .. (HashFirst(t) + HashCount(t) - 1) : t[q] # "#"

\* C24: restart_rename with keep < 1, or with a template that has no '#'
\* or more than one run of '#', renames no file; it returns EINVAL, for
\* keep < 1 whenever both pointers are given and for the template whenever
\* moreover the source exists (the NULL checks and the stat of the source
\* come first and return their own codes).
C24_BadArgumentsRejected ==
    (rot.op = "restart_rename" /\ (rot.keep < 1 \/ Malformed(rot.tmpl)))
    => /\ files = rot.pre
       /\ rot.moves = <<>>
       /\ rot.ret # ESIO_SUCCESS
       /\ rot.raised = rot.ret
       /\ (rot.bad = "none" /\ rot.keep < 1) => rot.ret = ESIO_EINVAL
       /\ (rot.bad = "none" /\ rot.src \in DOMAIN rot.pre) => rot.ret = ESIO_EINVAL

\* A template with two runs of '#', rejected with files at hand that the
\* first run alone would have matched.
C24_Witness ==
    /\ rot.op = "restart_rename"
    /\ rot.st = "ret"
    /\ rot.bad = "none"
    /\ rot.keep > 1
    /\ HashCount(rot.tmpl) = 2
    /\ Malformed(rot.tmpl)
    /\ rot.src = <<"n">>
    /\ {<<"n">>, <<"c", "0">>, <<"c", "0", "x">>} \subseteq DOMAIN rot.pre
    /\ rot.ret = ESIO_EINVAL
    /\ files = rot.pre

\* C25: restart_rename of a source that does not exist renames nothing,
\* whatever the directory holds, and returns EFAILED once the pointers and
\* keep have passed their checks.
C25_MissingSource ==
    (rot.op = "restart_rename" /\ rot.src \notin DOMAIN rot.pre)
    => /\ files = rot.pre
       /\ rot.moves = <<>>
       /\ rot.ret # ESIO_SUCCESS
       /\ (rot.bad = "none" /\ rot.keep >= 1)
             => rot.ret = ESIO_EFAILED /\ rot.raised = ESIO_EFAILED

\* A missing source with files at hand that a rotation would have shifted.
C25_Witness ==
    /\ rot.op = "restart_rename"
    /\ rot.st = "ret"
    /\ rot.bad = "none"
    /\ rot.src \notin DOMAIN rot.pre
    /\ rot.tmpl = <<"c", "#">>
    /\ rot.keep = 3
    /\ {<<"c", "0">>, <<"c", "1">>} \subseteq DOMAIN rot.pre
    /\ rot.ret = ESIO_EFAILED
    /\ files = rot.pre

\* C26 as stated: after a successful restart_rename every file that matched
\* the template with an index of 0 .. keep-1 is found, with its contents,
\* at the index one higher.
C26_IndicesIncremented ==
    Rotated =>
        \A i \in 0 .. (rot.keep - 1) : \A old \in AtIndex(rot.pre, i) :
            \E name \in AtIndex(files, i + 1) : files[name] = rot.pre[old]

\* ----------------------------------------------------- index properties
\* What the name holds between the prefix and the suffix of the template t,
\* and whether the name matches t as the documentation defines it: equal to
\* t before the '#' run and after it, with one or more digits in between.
Region(t, name) == SubSeq(name, Len(Prefix(t)) + 1, Len(name) - Len(Suffix(t)))
Matches(t, name) ==
    /\ Len(name) > Len(Prefix(t)) + Len(Suffix(t))
    /\ SubSeq(name, 1, Len(Prefix(t))) = Prefix(t)
    /\ SubSeq(name, Len(name) - Len(Suffix(t)) + 1, Len(name)) = Suffix(t)
    /\ \A q \in 1 .. Len(Region(t, name)) : isdigit(Region(t, name)[q])

\* The decimal value of the name's region, INT_MAX standing for all above.
RegionValue(t, name) ==
    DecimalValue(Region(t, name), 0, Len(Region(t, name)))

\* A call of restart_nextindex with a template of exactly one '#' run.
IndexCalled == rot.op = "restart_nextindex" /\ ~Malformed(rot.tmpl)

\* C27 as stated: for a template with one '#' run and a name that is the
\* template with the run replaced by digits whose value + 1 fits in an int,
\* restart_nextindex returns the value + 1, whatever the prefix, the suffix
\* (one that starts with a digit included) and the number of digits.
C27_NextIndexOfSubstitution ==
    (/\ IndexCalled
     /\ Matches(rot.tmpl, rot.src)
     /\ RegionValue(rot.tmpl, rot.src) <= INT_MAX - 1)
    => rot.ret = RegionValue(rot.tmpl, rot.src) + 1

\* C28 as stated: for a template with one '#' run and a name that does not
\* match it, restart_nextindex returns 0, whatever errval is.
C28_MismatchReturnsZero ==
    (IndexCalled /\ ~Matches(rot.tmpl, rot.src)) => rot.ret = 0

\* C29 as stated: for a matching name whose index + 1 exceeds INT_MAX
\* restart_nextindex returns errval, and for every other matching name a
\* value of 1 .. INT_MAX.
C29_NoOverflow ==
    (IndexCalled /\ Matches(rot.tmpl, rot.src))
    => IF RegionValue(rot.tmpl, rot.src) > INT_MAX - 1
       THEN rot.ret = rot.errval
       ELSE rot.ret >= 1 /\ rot.ret <= INT_MAX

\* C30 as stated: for a template without '#' or with more than one run of
\* '#' restart_nextindex returns errval, whatever the name.
C30_MalformedReturnsErrval ==
    (rot.op = "restart_nextindex" /\ Malformed(rot.tmpl))
    => rot.ret = rot.errval

\* ------------------------------------------------------ rotation order
\* The renames of the rotation `rot` that shift a matched entry (the rename
\* of the source is the last one and is none of them), and the index the
\* k-th of them found its entry at.
Shifts == {k \in 1 .. Len(rot.moves) : rot.moves[k][1] # rot.src}
ShiftIndex(k) == restart_nextindex(rot.tmpl, rot.moves[k][1], 0 - 1) - 1

\* C31 as stated: restart_rename shifts the matched entries in strictly
\* descending index order, and shifts an entry to index i+1 only after
\* every entry that was at index i+1 and is to be shifted itself (its index
\* below keep-1) has been renamed; also with digit strings of different
\* lengths or with leading zeros.
C31_DescendingIndexOrder ==
    RenameCalled =>
        /\ \A k \in Shifts : \A l \in Shifts :
              k < l => ShiftIndex(k) > ShiftIndex(l)
        /\ \A k \in Shifts : \A old \in AtIndex(rot.pre, ShiftIndex(k) + 1) :
              ShiftIndex(k) + 1 < rot.keep - 1
                => \E l \in Shifts : l < k /\ rot.moves[l][1] = old

\* C40 as stated: within one restart_rename call no two matched entries
\* are renamed onto the same destination, no rename overwrites an entry of
\* index below keep-1 that has not been moved yet, and after a successful
\* call every file that was at an index i < keep-1 is found with its
\* contents at index i+1; also with names of the same index in different
\* widths.
C40_NoKeptFileLost ==
    /\ RenameCalled =>
          /\ \A k \in Shifts : \A l \in Shifts :
                k # l => rot.moves[k][2] # rot.moves[l][2]
          /\ \A k \in 1 .. Len(rot.moves) :
                (/\ rot.moves[k][2] \in DOMAIN rot.pre
                 /\ restart_nextindex(rot.tmpl, rot.moves[k][2], 0 - 1) \in 1 .. (rot.keep - 1))
                => \E l \in 1 .. (k - 1) : rot.moves[l][1] = rot.moves[k][2]
    /\ Rotated =>
          \A i \in 0 .. (rot.keep - 2) : \A old \in AtIndex(rot.pre, i) :
              \E name \in AtIndex(files, i + 1) : files[name] = rot.pre[old]

\* ------------------------------------------------------ fault properties
\* A field call has just returned.
FieldCall == last.op \in {"field_write", "field_read", "field_size"}

\* Rank r's call dispatched to the kernel of a layout and the kernel left
\* by one of its exits: it returned, or it reported its failure to a hook
\* that stopped the process.
KernelExited(r) ==
    /\ \E q \in 1 .. Len(ev[r]) : ev[r][q][1] = "dispatch"
    /\ last.out[r].st \in {"ret", "abort"}

\* C32 as stated: every error detected inside a field_read is returned to
\* the caller; a rank whose call reported an error and returned, because
\* the reader failed or for another reason, got a non-zero code.
C32_ReadErrorsReturned ==
    last.op = "field_read" =>
        \A r \in Ranks :
            (last.out[r].st = "ret" /\ last.out[r].raised # 0)
                => last.out[r].ret # ESIO_SUCCESS

\* The stored metadata of the field the call was about fails a sanity
\* check: it is longer than the buffer, or its layout tag names no layout.
BadMetadata ==
    /\ FoundBefore.dset
    /\ FoundBefore.meta # <<>>
    /\ \/ Len(FoundBefore.meta) > ESIO_FIELD_METADATA_SIZE
       \/ FoundBefore.meta[4] < 0
       \/ FoundBefore.meta[4] >= esio_nlayout

\* Rank r's call got as far as reading the field's metadata.
ReadMetadata(r) ==
    IF last.op = "field_size"
    THEN last.a.bad = "none" /\ last.pre.s.file_id # NoId
    ELSE Passed(r)

\* C33 as stated: field_read, field_write and field_size on a field whose
\* stored layout tag is outside the registry, or whose metadata overwrote
\* the buffer's sentinel, report ESIO_ESANITY, return it when the hook
\* returns, and never index the layout registry with that tag.
C33_SanityRejected ==
    (FieldCall /\ BadMetadata) =>
        \A r \in Ranks :
            ReadMetadata(r) =>
                /\ last.out[r].raised = ESIO_ESANITY
                /\ last.out[r].st = "ret" => last.out[r].ret = ESIO_ESANITY
                /\ \A q \in 1 .. Len(ev[r]) : ev[r][q] # <<"esio_layout", "outside">>

\* How often rank r's call made the driver call c on the object o.
Count(r, c, o) == Cardinality({q \in 1 .. Len(ev[r]) : ev[r][q] = <<c, o>>})

\* The identifiers a call acquires: the dataset, the dataspace a new
\* dataset is created with, the stored type, and the kernel's transfer
\* property list and memory and file dataspaces.
Objects == {"dset", "newspace", "type", "plist", "memspace", "filespace"}

\* C34 as stated: when a field_write or field_read that created or opened
\* a dataset reports an error and returns, every identifier the call
\* acquired, the dataset and the dataspaces among them, has been closed.
C34_ClosedOnFailure ==
    last.op \in {"field_write", "field_read"} =>
        \A r \in Ranks :
            (/\ last.out[r].st = "ret"
             /\ last.out[r].raised # 0
             /\ Count(r, "open", "dset") > 0)
            => \A o \in Objects : Count(r, "close", o) = Count(r, "open", o)

\* The objects the kernel of layout 0 creates.
KernelObjects == {"plist", "memspace", "filespace"}

\* C35: on every exit of the layout-0 kernel, whichever step failed or
\* none, the transfer property list, the memory dataspace and the file
\* dataspace that the call created have each been closed exactly once,
\* after their creation, and nothing else of the three was closed.
C35_KernelReleasesAll ==
    last.op \in {"field_write", "field_read"} =>
        \A r \in Ranks :
            KernelExited(r) =>
                \A o \in KernelObjects :
                    /\ Count(r, "open", o) <= 1
                    /\ Count(r, "close", o) = Count(r, "open", o)
                    /\ \A q \in 1 .. Len(ev[r]) :
                          ev[r][q] = <<"close", o>>
                          => \E p \in 1 .. (q - 1) : ev[r][p] = <<"open", o>>

\* A call whose file hyperslab selection failed after the kernel had
\* created all three objects, and that returned the kernel's failure.
C35_Witness ==
    /\ last.op \in {"field_write", "field_read"}
    /\ last.a.fault = "filesel"
    /\ \E r \in Ranks :
          /\ KernelExited(r)
          /\ last.out[r].st = "ret"
          /\ last.out[r].raised = ESIO_EFAILED
          /\ Count(r, "open", "filespace") = 1
          /\ Count(r, "OPFUNC", "write") + Count(r, "OPFUNC", "read") = 0

\* ------------------------------------------------ selection properties
\* The strides of rank r's kernel call are non-zero and no run overlaps
\* the next: alocal*astride <= bstride and blocal*bstride <= cstride.
NestedStrides(a, r) ==
    /\ \A d \in 1 .. 3 : KernelStride(a, r)[d] > 0
    /\ ArgLocal(a, r)[3] * KernelStride(a, r)[3] <= KernelStride(a, r)[2]
    /\ ArgLocal(a, r)[2] * KernelStride(a, r)[2] <= KernelStride(a, r)[1]

\* Position of (k, j, i) in the row-major scan of a block of extent sz.
ScanIndex(sz, kji) == (kji[1] * sz[2] + kji[2]) * sz[3] + kji[3] + 1

\* Memory offset of (k, j, i) under the strides str.
MemOffset(str, kji) == kji[1] * str[1] + kji[2] * str[2] + kji[3] * str[3]

\* Linear position of file element (cstart+k, bstart+j, astart+i) in a
\* dataset of extents dims.
FilePos(dims, st, kji) ==
    ((st[1] + kji[1]) * dims[2] + st[2] + kji[2]) * dims[3] + st[3] + kji[3]

\* The (k, j, i) of a block of extent sz.
Block(sz) == (0 .. sz[1] - 1) \X (0 .. sz[2] - 1) \X (0 .. sz[3] - 1)

Silent(e, r) == \A q \in 1 .. Len(e[r]) : e[r][q][1] # "ESIO_ERROR"

\* A field_write of a by every rank under the default, aborting hook to a
\* name the writable open file has no field of, with no driver fault.
FirstWriteAbortHook(a) ==
    /\ field_write(a, "abort")
    /\ s.file_id # NoId
    /\ s.file_id.rw
    /\ ~Found(s, disk, a.name).dset
    /\ a.fault = "none"

\* C37: probing the metadata of a field that does not exist reports
\* nothing to the error hook, so the first field_write to a new name under
\* the aborting hook goes through the whole probe, reports no error on any
\* rank, returns ESIO_SUCCESS, leaves the process running and the field
\* created.
C37_SilentProbe ==
    [][\A a \in FaultArgs(prob) :
          FirstWriteAbortHook(a) =>
              /\ run' = "running"
              /\ Found(s', disk', a.name).dset
              /\ \A r \in Ranks :
                    /\ last'.out[r] = Success
                    /\ Silent(ev', r)
                    /\ SubSeq(ev'[r], 1, Len(MetadataProbe)) = MetadataProbe]_vars

\* A first write to a new name has gone through: the probe found no
\* field, nothing was reported, and the field is there afterwards.
C37_Witness ==
    /\ last.op = "field_write"
    /\ ~FoundBefore.dset
    /\ MetaBefore.err < 0
    /\ FoundAfter.dset
    /\ run = "running"
    /\ \A r \in Ranks :
          /\ last.out[r] = Success
          /\ Silent(ev, r)
          /\ \E q \in 1 .. Len(ev[r]) : ev[r][q] = <<"dispatch", "dset">>

\* The driver's error handler as rank r's calls e left it: "saved", the
\* handler and client data that were installed before the call, unless
\* the last H5Eset_auto2 of the call set something else.
HandlerAfter(e) ==
    IF \E q \in 1 .. Len(e) : e[q][1] = "H5Eset_auto2"
    THEN e[CHOOSE q \in 1 .. Len(e) :
              /\ e[q][1] = "H5Eset_auto2"
              /\ \A p \in (q + 1) .. Len(e) : e[p][1] # "H5Eset_auto2"][2]
    ELSE "saved"

\* C38: in every field call that reads a field's metadata, whether the
\* field is present, absent or fails a sanity check, the driver's error
\* handler and client data are saved before they are silenced, are
\* silenced for the attribute read and nothing else, and are the saved
\* ones again after it, before anything is reported and when the call is
\* left.
C38_ScopedSuppression ==
    FieldCall =>
        \A r \in Ranks :
            /\ ReadMetadata(r) =>
                  SubSeq(ev[r], 1, Len(MetadataProbe)) = MetadataProbe
            /\ HandlerAfter(ev[r]) = "saved"
            /\ \A q \in 1 .. Len(ev[r]) :
                  /\ ev[r][q] = <<"H5Eset_auto2", "NULL">>
                     => /\ q > 1 /\ ev[r][q - 1] = <<"H5Eget_auto2", "saved">>
                        /\ q + 2 <= Len(ev[r])
                        /\ ev[r][q + 1][1] = "H5LTget_attribute_int"
                        /\ ev[r][q + 2] = <<"H5Eset_auto2", "saved">>
                  /\ ev[r][q][1] = "H5LTget_attribute_int"
                     => q > 1 /\ ev[r][q - 1] = <<"H5Eset_auto2", "NULL">>
                  /\ ev[r][q][1] = "ESIO_ERROR"
                     => HandlerAfter(SubSeq(ev[r], 1, q - 1)) = "saved"

\* A call on a field whose metadata failed a sanity check: ESIO_ESANITY
\* was reported right after the probe.
C38_Witness ==
    /\ FieldCall
    /\ BadMetadata
    /\ \E r \in Ranks :
          /\ ReadMetadata(r)
          /\ Len(ev[r]) > Len(MetadataProbe)
          /\ ev[r][Len(MetadataProbe) + 1] = <<"ESIO_ERROR", "ESANITY">>
          /\ ev[r][Len(MetadataProbe)] = <<"H5Eset_auto2", "saved">>

\* The field_write found no field and its esio_field_create failed.
CreateFailed ==
    /\ last.op = "field_write"
    /\ last.pre.s.file_id # NoId
    /\ \A r \in Ranks : Passed(r)
    /\ MetaBefore.err < 0
    /\ ~esio_field_create(last.pre.s, FoundBefore, ArgGlobal(last.a)[1],
                          ArgGlobal(last.a)[2], ArgGlobal(last.a)[3],
                          last.a.type, last.a.fault).ok

\* C39 as stated: when esio_field_create fails inside a field_write the
\* call does not dispatch to the writer of the layout and, when it
\* returns, returns a non-zero code; no field_write dispatches to a writer
\* with anything but an open dataset identifier.
C39_NoDispatchAfterFailedCreate ==
    last.op = "field_write" =>
        \A r \in Ranks :
            /\ CreateFailed =>
                  /\ last.out[r].st = "ret" => last.out[r].ret # ESIO_SUCCESS
                  /\ \A q \in 1 .. Len(ev[r]) : ev[r][q][1] # "dispatch"
            /\ \A q \in 1 .. Len(ev[r]) :
                  ev[r][q][1] = "dispatch" => ev[r][q][2] = "dset"


====
